---------------------------- MODULE Spec2Model ----------------------------
(***************************************************************************)
(* A model of PyFrac's explicit front-advancing time step                  *)
(* (time_step_explicit_front), of the Cartesian mesh it runs on, of the    *)
(* narrow band (get_front_region) and of the volume-control equation       *)
(* systems.                                                                *)
(*                                                                         *)
(* Lengths are integers in units of half a cell width (hx = hy = 2).      *)
(* A float that is NaN is the value NaN; comparisons with it are false and *)
(* arithmetic on it gives NaN, as in IEEE-754 / numpy.                     *)
(***************************************************************************)
EXTENDS Integers, Sequences, FiniteSets, TLC

(***************************************************************************)
(* Bounds of the model.                                                    *)
(***************************************************************************)
\* number of cells requested from CartesianMesh in x and in y
NxRequested == 9
NyRequested == 9

(***************************************************************************)
(* Floats.                                                                 *)
(***************************************************************************)
\* np.nan
NaN == -99999999
\* the "unsolved" value 1e50 of the level set
UNSOLVED == 1000000

IsNaN(x) == x = NaN
\* x < y, x > y, x <= y, x >= y on floats: false as soon as one side is NaN
Lt(x, y) == ~IsNaN(x) /\ ~IsNaN(y) /\ x < y
Gt(x, y) == ~IsNaN(x) /\ ~IsNaN(y) /\ x > y
Le(x, y) == ~IsNaN(x) /\ ~IsNaN(y) /\ x <= y
Ge(x, y) == ~IsNaN(x) /\ ~IsNaN(y) /\ x >= y
\* x == y on floats
FEq(x, y) == ~IsNaN(x) /\ ~IsNaN(y) /\ x = y
Add(x, y) == IF IsNaN(x) \/ IsNaN(y) THEN NaN ELSE x + y
Neg(x) == IF IsNaN(x) THEN NaN ELSE 0 - x
Abs(x) == IF IsNaN(x) THEN NaN ELSE IF x < 0 THEN 0 - x ELSE x
Min(x, y) == IF x <= y THEN x ELSE y
Max(x, y) == IF x >= y THEN x ELSE y
\* np.minimum(x, y): NaN if one of the two is
FMin(x, y) == IF IsNaN(x) \/ IsNaN(y) THEN NaN ELSE Min(x, y)

RECURSIVE SumRange(_, _, _, _)
\* the sum of the integers f[e] for the e of S between lo and hi, by halves
SumRange(f, S, lo, hi) ==
    IF lo > hi THEN 0
    ELSE IF lo = hi THEN (IF lo \in S THEN f[lo] ELSE 0)
    ELSE LET mid == (lo + hi) \div 2
         IN SumRange(f, S, lo, mid) + SumRange(f, S, mid + 1, hi)

\* sum(f[S]) of floats, S a set of naturals below 1024: NaN if one of them is
SumOver(f, S) ==
    IF \E e \in S : IsNaN(f[e]) THEN NaN ELSE SumRange(f, S, 0, 1023)

\* the number of cells as requested, even or odd
KeepRequested(n) == n

(***************************************************************************)
(* CartesianMesh                                                           *)
(***************************************************************************)
\* set_cell_number: an even number of cells is increased by one
set_cell_number(n) == IF n % 2 = 0 THEN n + 1 ELSE n

nx == set_cell_number(NxRequested)
ny == set_cell_number(NyRequested)
\* the mesh spans [-Lx, Lx] * [-Ly, Ly]
Lx == nx - 1
Ly == ny - 1
hx == (2 * Lx) \div (nx - 1)
hy == (2 * Ly) \div (ny - 1)
NumberOfElts == nx * ny
EltArea == hx * hy
\* cellDiag ** 2
cellDiagSq == hx * hx + hy * hy
Cells == 0 .. (NumberOfElts - 1)

\* column i and row j of a cell
Col(e) == e % nx
Row(e) == e \div nx

\* the four neighbours on a grid without a boundary
NeighborsWithoutBoundary(elem, nxx, nyy) == <<elem - 1, elem + 1, elem - nxx, elem + nxx>>

\* Neighbors(elem, nx, ny): <<left, right, bottom, up>>
Neighbors(elem, nxx, nyy) ==
    LET j == elem \div nxx
        i == elem % nxx
        left == IF i = 0 THEN elem ELSE j * nxx + i - 1
        right == IF i = nxx - 1 THEN elem ELSE j * nxx + i + 1
        bottom == IF j = 0 THEN elem ELSE (j - 1) * nxx + i
        up == IF j = nyy - 1 THEN elem ELSE (j + 1) * nxx + i
    IN <<left, right, bottom, up>>

\* get_NeiElements: the four neighbours of every cell of an nxx-by-nyy mesh
get_NeiElements(nxx, nyy) == [e \in 0 .. nxx * nyy - 1 |-> Neighbors(e, nxx, nyy)]

\* self.NeiElements of the mesh of the call
NeiElements == get_NeiElements(nx, ny)

\* range(a, b) as a sequence
Range(a, b) == [k \in 1 .. Max(b - a, 0) |-> a + k - 1]

RECURSIVE FrontlistSides(_, _, _, _)
\* the loop of get_Frontlist over i in range(1, ny - 3), from i on
FrontlistSides(i, acc, nxx, nyy) ==
    IF i >= nyy - 3 THEN acc
    ELSE FrontlistSides(i + 1,
             acc \o <<nxx + 1 + i * nxx, 2 * nxx - 2 + i * nxx>>, nxx, nyy)

\* get_Frontlist: the list of cells one cell inside the boundary of an
\* nxx-by-nyy mesh
get_Frontlist(nxx, nyy) ==
    FrontlistSides(1,
        Range(nxx + 1, 2 * nxx - 1)
        \o Range((nyy - 3) * nxx + nxx + 1, (nyy - 3) * nxx + 2 * nxx - 1),
        nxx, nyy)

\* self.Frontlist of the mesh of the call
Frontlist == get_Frontlist(nx, ny)

SeqToSet(s) == {s[k] : k \in 1 .. Len(s)}

\* CenterCoor: coordinates of the centre of a cell, the origin at the central cell
CenterX(e) == hx * Col(e) - Lx
CenterY(e) == hy * Row(e) - Ly
\* CenterElts: the cell at the origin
CenterElt == CHOOSE e \in Cells : CenterX(e) = 0 /\ CenterY(e) = 0

\* squared distance of the centres of two cells
DistSq(a, b) ==
    (CenterX(a) - CenterX(b)) * (CenterX(a) - CenterX(b))
    + (CenterY(a) - CenterY(b)) * (CenterY(a) - CenterY(b))

\* dist <= a + (k2 / 2) * cellDiag for a >= 0, with dist ** 2 = dsq, in exact arithmetic
WithinRadius(dsq, a, k2) ==
    LET L == 4 * dsq - 4 * a * a - k2 * k2 * cellDiagSq
    IN L <= 0 \/ L * L <= 16 * k2 * k2 * a * a * cellDiagSq

\* get_cells_inside_circle(r, center) for r = a + (k2 / 2) * cellDiag
get_cells_inside_circle(a, k2, center) ==
    {e \in Cells : WithinRadius(DistSq(e, center), a, k2)}

(***************************************************************************)
(* get_front_region (level_set_utils.py)                                   *)
(***************************************************************************)
\* the cells in the circle drawn from Ribbon cell cell_i, whose (tip-inversion)
\* distance to the front is sd
RibbonCircle(cell_i, sd) ==
    IF Abs(sd) > hx /\ Abs(sd) > hy
    THEN get_cells_inside_circle(Abs(sd), 5, cell_i)
    ELSE get_cells_inside_circle(Abs(sd), 3, cell_i)

\* len(np.intersect1d(front_region, nei, assume_unique=True)): the number of
\* equal adjacent pairs in the sorted concatenation of the two arrays
CommonCount(region, nei) ==
    LET vals == {nei[k] : k \in 1 .. 4}
        mult(x) == Cardinality({k \in 1 .. 4 : nei[k] = x})
        pairs(x) == mult(x) - 1 + (IF x \in region THEN 1 ELSE 0)
        RECURSIVE Total(_)
        Total(V) == IF V = {} THEN 0
                    ELSE LET x == CHOOSE y \in V : TRUE
                         IN pairs(x) + Total(V \ {x})
    IN Total(vals)

\* the band before the sanity check: np.unique of the cells of all circles
FrontBand(EltRibbon, sgndDist_k) ==
    UNION {RibbonCircle(r, sgndDist_k[r]) : r \in EltRibbon}

\* the cells that are out and have three of their neighbours in
OutWithThreeIn(band) ==
    LET probably_out ==
            {NeiElements[e][k] : e \in band, k \in 1 .. 4} \ band
    IN {e \in probably_out : CommonCount(band, NeiElements[e]) >= 3}

\* the cells that are out and surrounded by in
OutToAdd(band) ==
    LET probably_out ==
            {NeiElements[e][k] : e \in band, k \in 1 .. 4} \ band
    IN {e \in probably_out : CommonCount(band, NeiElements[e]) > 3}

\* get_front_region(mesh, EltRibbon, sgndDist_k[EltRibbon])
get_front_region(EltRibbon, sgndDist_k) ==
    LET band == FrontBand(EltRibbon, sgndDist_k)
    IN band \cup OutToAdd(band)

(***************************************************************************)
(* The fast-marching solver (class fmm of the level_set package, modelled  *)
(* by its contract).  Known cells take their prescribed value, a cell of   *)
(* the evaluated region takes the smallest known value plus its grid       *)
(* distance to that known cell, every other cell keeps its value.          *)
(***************************************************************************)
\* grid distance between the centres of two cells
GridDist(a, b) ==
    Abs(CenterX(a) - CenterX(b)) + Abs(CenterY(a) - CenterY(b))

SetMin(S) == CHOOSE x \in S : \A y \in S : x <= y

\* fmm(mesh): a new structure, the level set unsolved everywhere
fmmInit == [e \in Cells |-> UNSOLVED]

\* fmmStruct.solveFMM((values, known), toEval, mesh) on the level set LS
solveFMM(LS, values, known, toEval) ==
    [e \in Cells |->
        IF e \in known THEN values[e]
        ELSE IF e \in toEval /\ known # {}
             THEN IF \E k \in known : IsNaN(values[k]) THEN NaN
                  ELSE SetMin({values[k] + GridDist(e, k) : k \in known})
             ELSE LS[e]]

(***************************************************************************)
(* Filling fractions.  The call only compares them with 0 - eps, 1.0 and   *)
(* 1.0 + 1e-4, so they are modelled by an order-preserving scale on which  *)
(* these thresholds and 0.0 are the even points and the odd points are     *)
(* floats strictly in between.                                             *)
(***************************************************************************)
\* 0.0 - np.finfo(float).eps
FF_NEG_EPS == -2
\* 0.0
FF_ZERO == 0
\* 1.0
FF_ONE == 2
\* 1.0 + 1e-4
FF_ONE_TOL == 4
\* the filling fractions tried in one cell: a float in each interval the
\* thresholds cut but (0.0, 1.0), where those of the other cells are, and
\* 1.0 + 1e-4 itself
FillValues ==
    {FF_NEG_EPS - 1, FF_ZERO - 1, FF_ONE + 1, FF_ONE_TOL, FF_ONE_TOL + 1}

\* 1 / 1e-4, the tolerance on a negative tip width relative to the mean
TIP_TOL_INV == 10000

(***************************************************************************)
(* More bounds of the model.                                               *)
(***************************************************************************)
\* the time steps are the squares of 1 .. MaxRootTimeStep
MaxRootTimeStep == 2
\* the largest number of rings of Channel cells around the central cell
MaxChannelRings == 1
\* the largest value of sim_properties.maxProjItrs
MaxProjItrs == 2
\* the largest number of expansions of the band of the continuous front
MaxBandExpansions == 1
\* a regular tip width
TipWidth == 20000

(***************************************************************************)
(* The state: one call of time_step_explicit_front on the fracture of the  *)
(* last time step.                                                         *)
(***************************************************************************)
VARIABLES
    pc,             \* the place of the call in time_step_explicit_front
    Fr_lstTmStp,    \* the fields of the Fracture object passed to the call
    Fr_entry,       \* the fields that object had when the call began
    vc,             \* the call of a MakeEquationSystem_volumeControl function
    timeStep,       \* the argument timeStep
    Qin,            \* sum(Qin), the injection rate summed over the cells
    sim_properties, \* projMethod, and for each other field of sim_properties
                    \* the set of the values it may have: all of them until
                    \* the call reads the field, the one read from then on
    mat_properties, \* the same for the fields of mat_properties
    sgndDist_k,     \* the level set of the trial front
    expansions,     \* the number of expansions of the band (continuous front)
    EltsTipNew,     \* the new tip cells, the fully traversed ones included
    geometry,       \* what l_k and alpha_k are like: "ok" or how they are wrong
    correct_size_of_pstv_region,
                    \* the flags reconstruct_front_continuous returned
    FillFrac_k,     \* the filling fraction of each cell of EltsTipNew
    lists_k,        \* EltChannel_k, EltTip_k, EltCrack_k, EltRibbon_k
    wTip,           \* the tip width of each cell of EltsTipNew
    LkOff,          \* the leak-off of every cell over the step
    data,           \* the data returned by solve_width_pressure
    itr,            \* the counter of the toughness iteration loop
    passes,         \* the number of passes of the loop that have begun
    Fr_kplus1,      \* the fields of the Fracture object built by the call
    exitstatus,     \* the status returned
    returned        \* the object returned: "None", "Fr_lstTmStp", "Fr_kplus1"

vars == <<pc, Fr_lstTmStp, Fr_entry, vc, timeStep, Qin, sim_properties,
          mat_properties, sgndDist_k, expansions, EltsTipNew,
          geometry,
                   correct_size_of_pstv_region, FillFrac_k, lists_k, wTip, LkOff, data, itr, passes,
          Fr_kplus1, exitstatus, returned>>

\* Python's None, also the value of a local variable that is not bound yet
None == "None"
\* the value of a local array that is not bound yet
Unbound == << >>

\* the cells around a set of cells (its neighbours in the eight directions)
Around(S) ==
    {e \in Cells \ S : \E c \in S :
        Abs(Col(e) - Col(c)) <= 1 /\ Abs(Row(e) - Row(c)) <= 1}

\* the Ribbon cells: the Channel cells with a neighbour in the Tip
RibbonOf(EltChannel, EltTip) ==
    {c \in EltChannel : \E k \in 1 .. 4 : NeiElements[c][k] \in EltTip}

\* the cells at most k cells away from the central cell, in x and in y
Ring(k) ==
    {e \in Cells : /\ Abs(Col(e) - Col(CenterElt)) <= k
                   /\ Abs(Row(e) - Row(CenterElt)) <= k}

\* distance of a cell to the central cell, in half cells: the larger of the
\* distances in x and in y, plus one cell off the two axes
OctagonDist(e) ==
    LET dx == Abs(Col(e) - Col(CenterElt))
        dy == Abs(Row(e) - Row(CenterElt))
    IN  2 * (Max(dx, dy) + Min(1, Min(dx, dy)))

\* the fluid pressure of a fracture, higher in the Channel than in the Tip
\* and zero outside the fracture
FluidPressure(EltChannel, EltTip) ==
    [e \in Cells |-> IF e \in EltChannel THEN 2
                     ELSE IF e \in EltTip THEN 1 ELSE 0]

\* A fracture whose Channel is the central cell and s rings of cells around it
\* and whose Tip is the next ring; the front is the octagon at distance
\* 2 * s + 3 from the centre, which has the centres of the Channel cells inside
\* and the centres of the Tip cells off the axes outside, the level set is
\* the distance to it, the tip moves at velocity v0, and the fluid reached the
\* Channel cells at the current time.
InitialFracture(s, v0) ==
    LET channel == Ring(s)
        tip == Ring(s + 1) \ channel
        sd == [e \in Cells |-> OctagonDist(e) - (2 * s + 3)]
        w0 == [e \in Cells |-> IF e \in channel THEN 2
                               ELSE IF e \in tip THEN 1 ELSE 0]
    IN [sgndDist |-> sd,
        EltChannel |-> channel,
        EltTip |-> tip,
        EltCrack |-> channel \cup tip,
        EltRibbon |-> RibbonOf(channel, tip),
        EltTipBefore |-> tip,
        v |-> [e \in tip |-> v0],
        w |-> w0,
        pFluid |-> FluidPressure(channel, tip),
        FillF |-> [e \in tip |-> FF_ZERO + 1],
        time |-> 1,
        Tarrival |-> [e \in Cells |-> IF e \in channel THEN 1 ELSE NaN],
        injectedVol |-> SumOver(w0, Cells) * EltArea,
        LkOffTotal |-> 0,
        FractureVolume |-> SumOver(w0, Cells) * EltArea,
        closed |-> {}]

(***************************************************************************)
(* time_step_explicit_front, lines 66-227: the trial level set, the        *)
(* reconstruction of the front and the checks on it.                       *)
(***************************************************************************)
ProjMethods == {"ILSA_orig", "LS_grad", "LS_continousfront", "unsupported"}

\* no system of volume control is being assembled
NoSystem == [pc |-> "idle"]

\* the pore pressures of the material: one below every fluid pressure, and the
\* fluid pressure of the Tip, below the one of the Channel and above the zero
\* of the cells outside the fracture
PorePressures == {-1, 1}

Init ==
    /\ pc = "start"
    /\ vc = NoSystem
    /\ timeStep \in {k * k : k \in 1 .. MaxRootTimeStep}
    /\ Qin = EltArea
    /\ \E m \in ProjMethods :
          sim_properties = [projMethod |-> m, paramFromTip |-> BOOLEAN,
                            maxProjItrs |-> 0 .. MaxProjItrs,
                            explicitProjection |-> BOOLEAN]
    /\ \E s \in 0 .. MaxChannelRings, v0 \in 0 .. 1 :
          /\ Fr_lstTmStp = InitialFracture(s, v0)
          \* the stagnant front is tried on the smallest fracture, and so are
          \* the methods that differ from ILSA_orig in the routine called only
          /\ v0 = 0 => s = 0
          /\ sim_properties.projMethod \in {"LS_grad", "unsupported"}
                => s = 0 /\ v0 = 1
    /\ Fr_entry = Fr_lstTmStp
    /\ \E Cprime \in 0 .. 1, porePressure \in PorePressures :
          /\ mat_properties = [anisotropic_K1c |-> BOOLEAN,
                               TI_elasticity |-> BOOLEAN,
                               Cprime |-> Cprime,
                               porePressure |-> porePressure]
          \* without leak-off the pore pressure has no effect
          /\ Cprime = 0 => porePressure = -1
    /\ sgndDist_k = Unbound
    /\ expansions = 0
    /\ EltsTipNew = None
    /\ geometry = None
    /\ correct_size_of_pstv_region = None
    /\ FillFrac_k = Unbound
    /\ lists_k = None
    /\ wTip = Unbound
    /\ LkOff = Unbound
    /\ data = None
    /\ itr = 0
    /\ passes = 0
    /\ Fr_kplus1 = None
    /\ exitstatus = None
    /\ returned = None

\* x >= -cellDiag
GeMinusCellDiag(x) == x >= 0 \/ x * x <= cellDiagSq

\* lines 75-96 and 167-190: the level set of the front moved by the velocity
\* of the last time step, solved on the band front_region
TrialLevelSet(Fr, dt, front_region) ==
    LET pstv_region == {e \in front_region : GeMinusCellDiag(Fr.sgndDist[e])}
        ngtv_region == {e \in front_region : Fr.sgndDist[e] < 0}
        moved == [e \in Fr.EltTip |-> Fr.sgndDist[e] - dt * Fr.v[e]]
        LS1 == solveFMM(fmmInit, [e \in Fr.EltTip |-> Neg(moved[e])],
                        Fr.EltTip, pstv_region \cup Fr.EltTip)
        toEval == ngtv_region \cup Fr.EltTip
        LS2 == solveFMM(LS1, moved, Fr.EltTip, toEval)
    IN [e \in Cells |-> IF e \in toEval THEN LS2[e] ELSE Neg(LS2[e])]

\* return exitstatus, obj
Return(status, obj) ==
    /\ pc' = "return"
    /\ exitstatus' = status
    /\ returned' = obj

\* raise SystemExit(...)
RaiseSystemExit ==
    /\ pc' = "SystemExit"
    /\ UNCHANGED <<exitstatus, returned>>

\* lines 71-100
LevelSetOfTrialFront ==
    /\ pc = "start"
    /\ sgndDist_k' = TrialLevelSet(Fr_lstTmStp, timeStep,
            get_front_region(Fr_lstTmStp.EltRibbon, Fr_lstTmStp.sgndDist))
    /\ pc' = "reconstruct"
    /\ UNCHANGED <<Fr_lstTmStp, Fr_entry, vc, timeStep, Qin, sim_properties,
                   mat_properties, expansions, EltsTipNew,
                   geometry,
                   correct_size_of_pstv_region, FillFrac_k, lists_k, wTip, LkOff, data, itr,
                   passes, Fr_kplus1, exitstatus, returned>>

\* The new tip cells a front reconstruction may return for a fracture: the tip
\* cells of the last step (the front stays in them), those and the cells
\* around the fracture (the front has traversed the old tip cells), or none.
TipCandidates(Fr) ==
    {Fr.EltTip, Fr.EltTip \cup Around(Fr.EltCrack), {}}

\* what reconstruct_front may return for l_k and alpha_k
Geometries == {"ok", "nan", "negative l", "negative alpha", "alpha above pi/2"}

\* copy.deepcopy(Fr_lstTmStp) with the new tip cells (lines 141-143)
CopyWithNewTip(Fr, tips) ==
    [Fr EXCEPT !.EltTipBefore = Fr.EltTip, !.EltTip = tips]

\* lines 104-114: reconstruct_front and reconstruct_front_LS_gradient
ReconstructFront ==
    /\ pc = "reconstruct"
    /\ sim_properties.projMethod \in {"ILSA_orig", "LS_grad"}
    /\ \E tips \in TipCandidates(Fr_lstTmStp), g \in Geometries :
          /\ EltsTipNew' = tips
          /\ geometry' = g
    /\ UNCHANGED correct_size_of_pstv_region
    /\ pc' = "checks"
    /\ UNCHANGED <<Fr_lstTmStp, Fr_entry, vc, timeStep, Qin, sim_properties,
                   mat_properties, sgndDist_k, expansions,
                   FillFrac_k, lists_k, wTip, LkOff, data, itr, passes,
                   Fr_kplus1, exitstatus, returned>>

\* the third flag tested after the second: it counts only without the second
SecondFlagFirst(flags) == flags[2] /\ ~flags[1]

\* line 135: correct_size_of_pstv_region[2], tested first
FlagOfStatus7(flags) == flags[2]

\* line 140: correct_size_of_pstv_region[1], tested after the one of line 135
FlagOfStatus12(flags) == flags[1]

\* lines 115-198: one pass of the loop around reconstruct_front_continuous,
\* which returns the flags correct_size_of_pstv_region
ReconstructFrontContinuous ==
    /\ pc = "reconstruct"
    /\ sim_properties.projMethod = "LS_continousfront"
    /\ \E tips \in TipCandidates(Fr_lstTmStp), g \in Geometries,
          flags \in [0 .. 2 -> BOOLEAN] :
          /\ EltsTipNew' = tips
          /\ geometry' = g
          /\ correct_size_of_pstv_region' = flags
          /\ IF FlagOfStatus7(flags)
             THEN /\ Return(7, None)
                  /\ UNCHANGED <<Fr_kplus1, sgndDist_k, expansions>>
             ELSE IF FlagOfStatus12(flags)
             THEN /\ Fr_kplus1' = CopyWithNewTip(Fr_lstTmStp, tips)
                  /\ Return(12, "Fr_kplus1")
                  /\ UNCHANGED <<sgndDist_k, expansions>>
             ELSE IF ~flags[0]
             THEN /\ expansions < MaxBandExpansions
                  /\ expansions' = expansions + 1
                  /\ sgndDist_k' = TrialLevelSet(Fr_lstTmStp, timeStep, Cells)
                  /\ UNCHANGED <<pc, Fr_kplus1, exitstatus, returned>>
             ELSE /\ pc' = "checks"
                  /\ UNCHANGED <<Fr_kplus1, sgndDist_k, expansions,
                                 exitstatus, returned>>
    /\ UNCHANGED <<Fr_lstTmStp, Fr_entry, vc, timeStep, Qin, sim_properties,
                   mat_properties, FillFrac_k, lists_k,
                   wTip, LkOff, data, itr, passes>>

\* lines 199-200
ProjectionMethodNotSupported ==
    /\ pc = "reconstruct"
    /\ sim_properties.projMethod \notin
          {"ILSA_orig", "LS_grad", "LS_continousfront"}
    /\ RaiseSystemExit
    /\ UNCHANGED <<Fr_lstTmStp, Fr_entry, vc, timeStep, Qin, sim_properties,
                   mat_properties, sgndDist_k, expansions,
                   EltsTipNew, geometry,
                   correct_size_of_pstv_region, FillFrac_k, lists_k, wTip, LkOff,
                   data, itr, passes, Fr_kplus1>>

\* the values sim_properties.maxElementIn may have
MaxElementInValues == {1, NumberOfElts}

\* a front that never reaches the edge of the grid
NeverTouches(tips) == FALSE

\* line 213: len(np.intersect1d(Fr_lstTmStp.mesh.Frontlist, EltsTipNew)) > 0
TouchesFrontlist(tips) == SeqToSet(Frontlist) \cap tips # {}

\* lines 202-227: the checks on the reconstructed front
FrontChecks ==
    /\ pc = "checks"
    /\ IF EltsTipNew = {}
       THEN \* not np.in1d(EltsTipNew, front_region).any()
            /\ RaiseSystemExit
            /\ UNCHANGED Fr_lstTmStp
       ELSE IF geometry # "ok"
       THEN /\ Return(3, None)
            /\ UNCHANGED Fr_lstTmStp
       ELSE IF TouchesFrontlist(EltsTipNew)
       THEN /\ Fr_lstTmStp' =
                  [Fr_lstTmStp EXCEPT !.EltTipBefore = Fr_lstTmStp.EltTip,
                                      !.EltTip = EltsTipNew]
            /\ Return(12, "Fr_lstTmStp")
       ELSE \E maxElementIn \in MaxElementInValues,
               meshReductionPossible \in BOOLEAN :
            /\ UNCHANGED Fr_lstTmStp
            /\ IF Cardinality(Fr_lstTmStp.EltChannel \cup EltsTipNew)
                     > maxElementIn
                  /\ meshReductionPossible
               THEN Return(16, "Fr_lstTmStp")
               ELSE /\ pc' = "filling"
                    /\ UNCHANGED <<exitstatus, returned>>
    /\ UNCHANGED <<Fr_entry, vc, timeStep, Qin, sim_properties, mat_properties,
                   sgndDist_k, expansions, EltsTipNew, geometry,
                   correct_size_of_pstv_region, FillFrac_k,
                   lists_k, wTip, LkOff, data, itr, passes, Fr_kplus1>>

(***************************************************************************)
(* time_step_explicit_front, lines 229-383: the filling fractions, the     *)
(* lists of cells of the trial footprint and the tip widths.               *)
(***************************************************************************)
\* the smallest cell of a non-empty set of cells
FirstCell(S) == CHOOSE e \in S : \A x \in S : e <= x

\* What Integral_over_cell(..., 'A') / EltArea may return: the tip cells of the
\* last step behind the new front are full, the other new tip cells are half
\* full, and the first of these has the filling fraction f.
FillFractions(Fr, tips, f) ==
    LET traversed == IF tips = Fr.EltTip THEN {} ELSE Fr.EltTip
        first == FirstCell(tips \ traversed)
    IN [e \in tips |-> IF e \in traversed THEN FF_ONE
                       ELSE IF e = first THEN f ELSE FF_ZERO + 1]

\* line 238: FillFrac_k[(FillFrac_k > 1.0) & (FillFrac_k < 1.0 + 1e-4)] = 1.0
RoundFillFrac(F) ==
    [e \in DOMAIN F |-> IF F[e] > FF_ONE /\ F[e] < FF_ONE_TOL
                        THEN FF_ONE ELSE F[e]]

\* the filling fractions above 1.0 only
AboveOne(F) == \E e \in DOMAIN F : F[e] > FF_ONE

\* line 241: the filling fractions that make the step fail
FillFracOutOfRange(F) ==
    (\E e \in DOMAIN F : F[e] > FF_ONE) \/ (\E e \in DOMAIN F : F[e] < FF_NEG_EPS)

\* UpdateLists: the full cells of the new tip join the Channel, the partly
\* filled ones are the Tip, the Ribbon is the Channel cells next to the Tip
UpdateLists(EltChannel, tips, F) ==
    LET EltChannel_k == EltChannel \cup {e \in tips : F[e] >= FF_ONE}
        EltTip_k == {e \in tips : F[e] < FF_ONE}
    IN [EltChannel |-> EltChannel_k,
        EltTip |-> EltTip_k,
        EltCrack |-> EltChannel_k \cup EltTip_k,
        EltRibbon |-> RibbonOf(EltChannel_k, EltTip_k)]

\* lines 229-277
FillingFraction ==
    /\ pc = "filling"
    /\ \E f \in FillValues, nanChannel \in BOOLEAN :
          LET F == RoundFillFrac(FillFractions(Fr_lstTmStp, EltsTipNew, f))
          IN /\ FillFrac_k' = F
             /\ IF FillFracOutOfRange(F)
                THEN /\ Return(9, None)
                     /\ UNCHANGED lists_k
                ELSE IF sim_properties.projMethod = "LS_continousfront"
                        /\ nanChannel
                THEN \* UpdateListsFromContinuousFrontRec gave NaN for EltChannel_k
                     /\ Return(3, None)
                     /\ UNCHANGED lists_k
                ELSE /\ lists_k' = UpdateLists(Fr_lstTmStp.EltChannel,
                                               EltsTipNew, F)
                     /\ pc' = "tip width"
                     /\ UNCHANGED <<exitstatus, returned>>
    /\ UNCHANGED <<Fr_lstTmStp, Fr_entry, vc, timeStep, Qin, sim_properties,
                   mat_properties, sgndDist_k, expansions,
                   EltsTipNew, geometry,
                   correct_size_of_pstv_region, wTip, LkOff, data, itr, passes,
                   Fr_kplus1>>

\* 1 / sim_properties.toleranceVStagnant
toleranceVStagnantInv == 1000000

\* the smallest integer that is not below cellDiag
cellDiagCeil ==
    CHOOSE k \in 0 .. cellDiagSq :
        k * k >= cellDiagSq /\ (k = 0 \/ (k - 1) * (k - 1) < cellDiagSq)

\* lines 320-321: -(sdk - sd) / cellDiag < toleranceVStagnant
Stagnant(sdk, sd) ==
    /\ ~IsNaN(sdk)
    /\ ~IsNaN(sd)
    /\ \/ sd - sdk <= 0
       \/ /\ sd - sdk < cellDiagCeil
          /\ (sd - sdk) * toleranceVStagnantInv < cellDiagCeil

\* the stagnant cells of the new tip
StagnantCells(tips, sdk, sd) == {e \in tips : Stagnant(sdk[e], sd[e])}

\* What Integral_over_cell(..., tipAsymptote) / EltArea may return: the width
\* base in every cell of the new tip but the first one, whose width is first.
TipWidths(tips, base, first) ==
    [e \in tips |-> IF e = FirstCell(tips) THEN first ELSE base]

\* wTip < 0 and wTip > -1e-4 * np.mean(wTip), for a tip of n cells whose
\* widths sum to total
SmallNegative(x, total, n) ==
    /\ Lt(x, 0)
    /\ Gt(total, 0)
    /\ 0 - x <= (total - 1) \div (TIP_TOL_INV * n)

\* lines 377-379: the small negative tip widths are made positive
ClipSmallNegative(W) ==
    LET total == SumOver(W, DOMAIN W)
        n == Cardinality(DOMAIN W)
    IN [e \in DOMAIN W |-> IF SmallNegative(W[e], total, n)
                           THEN Abs(W[e]) ELSE W[e]]

\* line 381: (wTip < 0).any() or sum(wTip) == 0.
TipVolumeInvalid(W) ==
    (\E e \in DOMAIN W : Lt(W[e], 0)) \/ FEq(SumOver(W, DOMAIN W), 0)

\* the widths the first cell of the tip is given
FirstTipWidths == {NaN, 0 - 1, 0 - TipWidth}

\* lines 280-383
TipWidthStep ==
    /\ pc = "tip width"
    /\ \E nanKIPrime \in BOOLEAN, base \in {0, TipWidth},
          first \in FirstTipWidths \cup {0} :
          /\ base = 0 <=> first = 0
          /\ IF StagnantCells(EltsTipNew, sgndDist_k, Fr_lstTmStp.sgndDist) # {}
                /\ nanKIPrime
             THEN /\ Return(8, None)
                  /\ UNCHANGED wTip
             ELSE LET W == ClipSmallNegative(TipWidths(EltsTipNew, base, first))
                  IN /\ wTip' = W
                     /\ IF TipVolumeInvalid(W)
                        THEN Return(4, None)
                        ELSE /\ pc' = "leak off"
                             /\ UNCHANGED <<exitstatus, returned>>
    /\ UNCHANGED <<Fr_lstTmStp, Fr_entry, vc, timeStep, Qin, sim_properties,
                   mat_properties, sgndDist_k, expansions,
                   EltsTipNew, geometry,
                   correct_size_of_pstv_region, FillFrac_k, lists_k, LkOff, data, itr,
                   passes, Fr_kplus1>>

(***************************************************************************)
(* time_step_explicit_front, lines 389-530: the leak-off, the solution for *)
(* width and pressure and the new Fracture object.                         *)
(***************************************************************************)
\* the square root of a perfect square, rounded down for the other naturals
ISqrt(n) == CHOOSE k \in 0 .. n : k * k <= n /\ (k + 1) * (k + 1) > n

\* lines 409-412: the leak-off of a Channel cell the fluid reached at Tarrival
ChannelLeakOff(Cprime, time, Tarrival, dt) ==
    IF IsNaN(Tarrival) THEN NaN
    ELSE LET t_since_arrival == Max(time - Tarrival, 0)
         IN 2 * Cprime * (ISqrt(t_since_arrival + dt) - ISqrt(t_since_arrival))
              * EltArea

\* lines 389-428: the leak-off of every cell for the uniform Carter coefficient
\* Cprime; integral is what Integral_over_cell(..., 'Lk') returns for the new
\* tip, stagnantLk what leak_off_stagnant_tip returns, and belowPore the cells
\* whose leak-off line 428 sets to zero.  The field nan tells that one of the
\* two checks for a NaN fails the step.
LeakOffOf(Fr, tips, stagnant, Cprime, integral, stagnantLk, belowPore, dt) ==
    LET tipOn == Cprime * Cardinality(tips) > 0
        chOn == Cprime * Cardinality(Fr.EltChannel) > 0
        L1 == [e \in Cells |-> IF tipOn /\ e \in tips
                               THEN (IF IsNaN(integral[e]) THEN NaN
                                     ELSE 2 * Cprime * integral[e])
                               ELSE 0]
        L2 == [e \in Cells |-> IF chOn /\ e \in Fr.EltChannel
                               THEN ChannelLeakOff(Cprime, Fr.time,
                                                   Fr.Tarrival[e], dt)
                               ELSE L1[e]]
        L3 == [e \in Cells |-> IF chOn /\ e \in stagnant
                               THEN stagnantLk ELSE L2[e]]
    IN [nan |-> \/ tipOn /\ \E e \in tips : IsNaN(L1[e])
                \/ chOn /\ \E e \in Fr.EltChannel : IsNaN(L2[e]),
        LkOff |-> [e \in Cells |-> IF e \in belowPore THEN 0 ELSE L3[e]]]

\* line 428: Fr_lstTmStp.pFluid <= mat_properties.porePressure
NotAbovePorePressure(pFluid, porePressure) ==
    {e \in Cells : pFluid[e] <= porePressure}

\* what Integral_over_cell(..., 'Lk') returns for a new tip cell
TipLeakOffIntegral(tips, nanIntegral) ==
    [e \in tips |-> IF nanIntegral /\ e = FirstCell(tips) THEN NaN ELSE 1]

\* lines 389-428
LeakOffStep ==
    /\ pc = "leak off"
    /\ \E nanIntegral \in BOOLEAN :
          LET L == LeakOffOf(Fr_lstTmStp, EltsTipNew,
                             StagnantCells(EltsTipNew, sgndDist_k,
                                           Fr_lstTmStp.sgndDist),
                             mat_properties.Cprime,
                             TipLeakOffIntegral(EltsTipNew, nanIntegral), 1,
                             NotAbovePorePressure(Fr_lstTmStp.pFluid,
                                 mat_properties.porePressure),
                             timeStep)
          IN IF L.nan
             THEN /\ Return(13, None)
                  /\ UNCHANGED LkOff
             ELSE /\ LkOff' = L.LkOff
                  /\ pc' = "solve"
                  /\ UNCHANGED <<exitstatus, returned>>
    /\ UNCHANGED <<Fr_lstTmStp, Fr_entry, vc, timeStep, Qin, sim_properties,
                   mat_properties, sgndDist_k, expansions, EltsTipNew,
                   geometry,
                   correct_size_of_pstv_region, FillFrac_k, lists_k, wTip, data, itr, passes,
                   Fr_kplus1>>

\* What solve_width_pressure may return for the width: the tip widths in the
\* new tip and the width of the last step plus dw in the other Channel cells,
\* or a NaN in the first Channel cell.
SolvedWidth(Fr, tips, W, dw, nan) ==
    [e \in Cells |->
        IF e \in tips THEN W[e]
        ELSE IF e \in Fr.EltChannel
        THEN (IF nan /\ e = FirstCell(Fr.EltChannel) THEN NaN ELSE Fr.w[e] + dw)
        ELSE Fr.w[e]]

\* np.inf
Infinity == 0 - NaN

\* line 468: np.nanmax
nanmax(A) ==
    LET S == {A[e] : e \in DOMAIN A} \ {NaN}
    IN IF S = {} THEN NaN ELSE CHOOSE x \in S : \A y \in S : y <= x

\* line 476 for alpha_k = 0: hx * cos(alpha_k) + hy * sin(alpha_k)
max_l == hx

\* What reconstruct_front may return for l_k in a cell the front has fully
\* traversed: the front is at least max_l beyond the zero vertex.  A cell whose
\* level set has not changed was traversed in an earlier step: the front is
\* beyond its far corner.
TraversedLengths(unmoved) ==
    IF unmoved THEN {max_l + 1} ELSE {max_l, max_l + 1}

\* lines 475-478: (t_enter + t_leave) / 2 with
\*    t_enter = time + timeStep - l / Vel
\*    t_leave = time + timeStep - (l - max_l) / Vel
\* where Vel = moved / timeStep.  Vel_k is -0.0 for a level set that has not
\* changed, and the quotients are then -inf, or nan for l = max_l.
MeanOfEnterAndLeave(time, dt, l, moved) ==
    IF moved = 0
    THEN (IF l > max_l THEN Infinity ELSE NaN)
    ELSE LET sign == IF moved > 0 THEN 1 ELSE 0 - 1
             num == sign * (2 * (time + dt) * moved - (2 * l - max_l) * dt)
             den == sign * 2 * moved
         IN num \div den

\* an arrival time that is never corrected
NeverCorrected(t, max_Tarrival) == t

\* lines 479-480: an arrival time before the largest one of the last step is
\* replaced by it
ToCorrect(t, max_Tarrival) == IF Lt(t, max_Tarrival) THEN max_Tarrival ELSE t

\* lines 467-480: the arrival times, set for the new tip cells that join the
\* Channel
ArrivalTimes(Fr, tips, EltChannel_k, sdk, dt, l) ==
    LET max_Tarrival == nanmax(Fr.Tarrival)
        new_channel == (EltChannel_k \ Fr.EltChannel) \cap tips
    IN [e \in Cells |->
          IF e \in new_channel
          THEN ToCorrect(MeanOfEnterAndLeave(Fr.time, dt, l,
                                             Fr.sgndDist[e] - sdk[e]),
                         max_Tarrival)
          ELSE Fr.Tarrival[e]]

\* lines 483-525: the deep copy of the fracture of the last step with the
\* fields of the new footprint
NewFracture(Fr, w_n_plus1, closed, F, lists, dt) ==
    [Fr EXCEPT !.w = w_n_plus1,
               !.pFluid = FluidPressure(lists.EltChannel, lists.EltTip),
               !.time = Fr.time + dt,
               !.closed = closed,
               !.FillF = [e \in lists.EltTip |-> F[e]],
               !.EltChannel = lists.EltChannel,
               !.EltTip = lists.EltTip,
               !.EltCrack = lists.EltCrack,
               !.EltRibbon = lists.EltRibbon,
               !.FractureVolume = SumOver(w_n_plus1, Cells) * EltArea]

\* lines 429-530
SolveWidthPressure ==
    /\ pc = "solve"
    /\ \E nan \in BOOLEAN, fullyClosed \in BOOLEAN,
          l \in TraversedLengths(\E e \in EltsTipNew :
                                    sgndDist_k[e] = Fr_lstTmStp.sgndDist[e]) :
          LET w_n_plus1 == SolvedWidth(Fr_lstTmStp, EltsTipNew, wTip, 1, nan)
              closed == IF fullyClosed THEN lists_k.EltCrack ELSE {}
              Tarrival_k == ArrivalTimes(Fr_lstTmStp, EltsTipNew,
                                         lists_k.EltChannel, sgndDist_k,
                                         timeStep, l)
          IN IF \E e \in Cells : IsNaN(w_n_plus1[e])
             THEN /\ Return(5, None)
                  /\ UNCHANGED <<data, Fr_kplus1>>
             ELSE /\ data' = [closed |-> closed, fullyClosed |-> fullyClosed]
                  /\ Fr_kplus1' =
                        [NewFracture(Fr_lstTmStp, w_n_plus1, closed,
                                     FillFrac_k, lists_k, timeStep)
                            EXCEPT !.Tarrival = Tarrival_k]
                  /\ pc' = "loop"
                  /\ UNCHANGED <<exitstatus, returned>>
    /\ itr' = 0
    /\ UNCHANGED <<Fr_lstTmStp, Fr_entry, vc, timeStep, Qin, sim_properties,
                   mat_properties, sgndDist_k, expansions, EltsTipNew,
                   geometry,
                   correct_size_of_pstv_region, FillFrac_k, lists_k, wTip, LkOff, passes>>

(***************************************************************************)
(* time_step_explicit_front, lines 530-659: the toughness iteration loop.  *)
(***************************************************************************)
\* the inverted value as it is, whatever the level set of the last step
InvertedValue(ribbonValue, lastValue) == ribbonValue

\* line 614: np.minimum(sgndDist_k[EltRibbon], Fr_lstTmStp.sgndDist[EltRibbon])
ClampRibbon(ribbonValue, lastValue) == FMin(ribbonValue, lastValue)

\* the level set as the solver leaves it, positive in the Channel
Unflipped(LS, EltChannel) == LS

\* line 645: sgndDist_k[EltChannel] = -sgndDist_k[EltChannel]
FlipChannel(LS, EltChannel) ==
    [e \in Cells |-> IF e \in EltChannel THEN Neg(LS[e]) ELSE LS[e]]

\* lines 584-645: the level set solved from the values inverted in the Ribbon
\* cells of the last step, inversion being -TipAsymInversion(...)
ProjectedLevelSet(Fr, inversion) ==
    LET ribbon == [e \in Fr.EltRibbon |->
                      ClampRibbon(inversion[e], Fr.sgndDist[e])]
        front_region == get_front_region(Fr.EltRibbon, ribbon)
        pstv_region == {e \in front_region : GeMinusCellDiag(Fr.sgndDist[e])}
        ngtv_region == {e \in front_region : Fr.sgndDist[e] < 0}
        LS1 == solveFMM(fmmInit, ribbon, Fr.EltRibbon,
                        pstv_region \cup Fr.EltRibbon)
        LS2 == solveFMM(LS1, [e \in Fr.EltRibbon |-> Neg(ribbon[e])],
                        Fr.EltRibbon, ngtv_region \cup Fr.EltRibbon)
    IN FlipChannel(LS2, Fr.EltChannel)

\* What -TipAsymInversion may give in the Ribbon cells: the level set of the
\* last step moved by shift, or a NaN in the first Ribbon cell.
Inversions(Fr) ==
    {[e \in Fr.EltRibbon |-> Fr.sgndDist[e] + shift] : shift \in {0 - 1, 1}}
    \cup {[e \in Fr.EltRibbon |->
              IF e = FirstCell(Fr.EltRibbon) THEN NaN ELSE Fr.sgndDist[e]]}

\* the settings of paramFromTip, anisotropic_K1c, TI_elasticity and
\* explicitProjection
ProjectionSettings ==
    {[paramFromTip |-> p, anisotropic_K1c |-> a, TI_elasticity |-> t,
      explicitProjection |-> x] :
        p \in BOOLEAN, a \in BOOLEAN, t \in BOOLEAN, x \in BOOLEAN}

\* the settings tried: at most one of the first three properties is set, and
\* explicitProjection is set with anisotropic_K1c and only with it
AtMostOneSet(setting) ==
    /\ ~(setting.paramFromTip /\ setting.anisotropic_K1c)
    /\ ~(setting.paramFromTip /\ setting.TI_elasticity)
    /\ ~(setting.anisotropic_K1c /\ setting.TI_elasticity)
    /\ setting.explicitProjection <=> setting.anisotropic_K1c

\* which of alpha_ribbon_k, Kprime_k and Eprime_k have a NaN, if computed
NaNsOfProjection ==
    {{}, {"alpha_ribbon_k"}, {"Kprime_k"}, {"Eprime_k"},
     {"alpha_ribbon_k", "Kprime_k"}, {"alpha_ribbon_k", "Eprime_k"}}

\* a loop that goes on whatever the toughness
NeverOnlyOnce(projecting, explicitProjection) == FALSE

\* lines 647-649: do it only once if not anisotropic
DoItOnlyOnce(projecting, explicitProjection) ==
    ~projecting \/ explicitProjection

\* lines 532-659: one pass of the loop
ToughnessIteration ==
    /\ pc = "loop"
    /\ \E maxProjItrs \in sim_properties.maxProjItrs,
          setting \in {x \in ProjectionSettings : AtMostOneSet(x)},
          nans \in NaNsOfProjection,
          inversion \in Inversions(Fr_lstTmStp), converged \in BOOLEAN :
          LET paramFromTip == setting.paramFromTip
              anisotropic_K1c == setting.anisotropic_K1c
              TI_elasticity == setting.TI_elasticity
              explicitProjection == setting.explicitProjection
              projecting == paramFromTip \/ anisotropic_K1c \/ TI_elasticity
              nanAlpha == "alpha_ribbon_k" \in nans
              nanKprime == "Kprime_k" \in nans
              nanEprime == "Eprime_k" \in nans
          IN /\ itr < maxProjItrs
             /\ paramFromTip \in sim_properties.paramFromTip
             /\ anisotropic_K1c \in mat_properties.anisotropic_K1c
             /\ TI_elasticity \in mat_properties.TI_elasticity
             /\ explicitProjection \in sim_properties.explicitProjection
             \* what is not computed is neither NaN nor converged
             /\ nanAlpha => projecting
             /\ nanKprime => paramFromTip \/ anisotropic_K1c
             /\ nanEprime => TI_elasticity
             /\ converged => projecting /\ ~explicitProjection
             /\ sim_properties' =
                   [sim_properties EXCEPT
                       !.maxProjItrs = {maxProjItrs},
                       !.paramFromTip = {paramFromTip},
                       !.explicitProjection = {explicitProjection}]
             /\ mat_properties' =
                   [mat_properties EXCEPT
                       !.anisotropic_K1c = {anisotropic_K1c},
                       !.TI_elasticity = {TI_elasticity}]
             /\ passes' = passes + 1
             /\ IF projecting /\ nanAlpha
                THEN /\ Return(11, None)
                     /\ UNCHANGED <<sgndDist_k, itr>>
                ELSE IF (paramFromTip \/ anisotropic_K1c) /\ nanKprime
                THEN /\ Return(11, None)
                     /\ UNCHANGED <<sgndDist_k, itr>>
                ELSE IF TI_elasticity /\ nanEprime
                THEN /\ Return(11, None)
                     /\ UNCHANGED <<sgndDist_k, itr>>
                ELSE IF \E e \in Fr_lstTmStp.EltRibbon : IsNaN(inversion[e])
                THEN /\ Return(7, None)
                     /\ sgndDist_k' =
                           [e \in Cells |-> IF e \in Fr_lstTmStp.EltRibbon
                                            THEN inversion[e] ELSE UNSOLVED]
                     /\ UNCHANGED itr
                ELSE /\ sgndDist_k' = ProjectedLevelSet(Fr_lstTmStp, inversion)
                     /\ UNCHANGED <<exitstatus, returned>>
                     /\ IF DoItOnlyOnce(projecting, explicitProjection)
                           \/ converged
                        THEN \* break
                             /\ pc' = "finish"
                             /\ UNCHANGED itr
                        ELSE /\ itr' = itr + 1
                             /\ UNCHANGED pc
    /\ UNCHANGED <<Fr_lstTmStp, Fr_entry, vc, timeStep, Qin, expansions,
                   EltsTipNew, geometry,
                   correct_size_of_pstv_region, FillFrac_k, lists_k, wTip, LkOff,
                   data, Fr_kplus1>>

\* the loop ends because itr has reached maxProjItrs and the step fails with
\* status 10
ToughnessLoopFails ==
    /\ pc = "loop"
    /\ \E maxProjItrs \in sim_properties.maxProjItrs :
          /\ itr >= maxProjItrs
          /\ sim_properties' =
                [sim_properties EXCEPT !.maxProjItrs = {maxProjItrs}]
    /\ Return(10, None)
    /\ UNCHANGED <<Fr_lstTmStp, Fr_entry, vc, timeStep, Qin, mat_properties,
                   sgndDist_k, expansions, EltsTipNew, geometry,
                   correct_size_of_pstv_region, FillFrac_k,
                   lists_k, wTip, LkOff, data, itr, passes, Fr_kplus1>>

\* lines 532 and 661-664: the loop ends because itr has reached maxProjItrs,
\* and the step goes on
ToughnessLoopExhausted ==
    /\ pc = "loop"
    /\ \E maxProjItrs \in sim_properties.maxProjItrs :
          /\ itr >= maxProjItrs
          /\ sim_properties' =
                [sim_properties EXCEPT !.maxProjItrs = {maxProjItrs}]
    /\ pc' = "finish"
    /\ UNCHANGED <<Fr_lstTmStp, Fr_entry, vc, timeStep, Qin, mat_properties,
                   sgndDist_k, expansions, EltsTipNew, geometry,
                   correct_size_of_pstv_region, FillFrac_k,
                   lists_k, wTip, LkOff, data, itr, passes, Fr_kplus1,
                   exitstatus, returned>>

(***************************************************************************)
(* time_step_explicit_front, lines 666-745: the rest of the new Fracture   *)
(* object and the return.                                                  *)
(***************************************************************************)
\* x / dt for a length x and a time step dt, rounded towards minus infinity
Velocity(x, dt) == IF IsNaN(x) THEN NaN ELSE x \div dt

\* the bookkeeping without the leak-off of the step
BookkeepingWithoutLeakOff(Fk, Fr, sdk, L, Q, dt) ==
    [Fk EXCEPT !.sgndDist = sdk, !.injectedVol = Fk.injectedVol + Q * dt]

\* lines 666-675
Bookkeeping(Fk, Fr, sdk, L, Q, dt) ==
    [Fk EXCEPT !.v = [e \in Fk.EltTip |->
                         Velocity(Neg(Add(sdk[e], Neg(Fr.sgndDist[e]))), dt)],
               !.sgndDist = sdk,
               !.LkOffTotal = Add(Fk.LkOffTotal, SumOver(L, Cells)),
               !.injectedVol = Fk.injectedVol + Q * dt]

\* status 1 whatever the solve reported
AlwaysStatus1(d) == 1

\* lines 741-745: 14 if data[2], the solve reported full closure, 1 otherwise
StatusOfAcceptedStep(d) == IF d.fullyClosed THEN 14 ELSE 1

\* lines 666-745
Finish ==
    /\ pc = "finish"
    /\ Fr_kplus1' = Bookkeeping(Fr_kplus1, Fr_lstTmStp, sgndDist_k, LkOff,
                                Qin, timeStep)
    /\ \E turbulence \in BOOLEAN, saveFluidVelAsVector \in BOOLEAN,
          saveFluidFluxAsVector \in BOOLEAN :
          IF turbulence /\ (saveFluidVelAsVector \/ saveFluidFluxAsVector)
          THEN RaiseSystemExit
          ELSE Return(StatusOfAcceptedStep(data), "Fr_kplus1")
    /\ UNCHANGED <<Fr_lstTmStp, Fr_entry, vc, timeStep, Qin, sim_properties,
                   mat_properties, sgndDist_k, expansions, EltsTipNew,
                   geometry,
                   correct_size_of_pstv_region, FillFrac_k, lists_k, wTip, LkOff, data, itr,
                   passes>>

(***************************************************************************)
(* One call of time_step_explicit_front.                                   *)
(***************************************************************************)
Next ==
    \/ LevelSetOfTrialFront
    \/ ReconstructFront
    \/ ReconstructFrontContinuous
    \/ ProjectionMethodNotSupported
    \/ FrontChecks
    \/ FillingFraction
    \/ TipWidthStep
    \/ LeakOffStep
    \/ SolveWidthPressure
    \/ ToughnessIteration
    \/ ToughnessLoopExhausted
    \/ Finish

Spec == Init /\ [][Next]_vars


(***************************************************************************)
(* The systems of volume control, sys_volume_and_load_control.py.  An      *)
(* array indexed by the elements is a function on 0 .. n - 1, a list of    *)
(* elements or of values a sequence, a matrix a sequence of rows.          *)
(***************************************************************************)
\* the number of elements of the arrays handed to the assembly
VcNumberOfElts == 4
\* the largest |dw| and |dp| among the solutions looked for
MaxDeltaW == 3
MaxDeltaP == 30
\* the largest difference of sigma_o between two neighbouring elements
MaxStressStep == 6

VcElts == 0 .. (VcNumberOfElts - 1)

RECURSIVE SumOfEntries(_, _)
\* the sum of the entries of an array at a set of indices
SumOfEntries(a, S) ==
    IF S = {} THEN 0
    ELSE LET i == CHOOSE j \in S : TRUE
         IN  a[i] + SumOfEntries(a, S \ {i})

\* np.sum and sum of an array
Sum(a) == SumOfEntries(a, DOMAIN a)

\* a[idx], the values of an array at a list of indices
Take(a, idx) == [i \in 1 .. Len(idx) |-> a[idx[i]]]

\* C[np.ix_(rows, cols)]
ix_(C, rows, cols) ==
    [i \in 1 .. Len(rows) |-> [j \in 1 .. Len(cols) |-> C[rows[i]][cols[j]]]]

\* np.dot of a matrix and a vector
dot(M, v) ==
    [i \in 1 .. Len(M) |-> Sum([j \in 1 .. Len(v) |-> M[i][j] * v[j]])]

\* np.hstack of a matrix and a column
hstack(M, col) == [i \in 1 .. Len(M) |-> Append(M[i], col[i])]

\* np.vstack of a matrix and a row
vstack(M, row) == Append(M, row)

\* np.ones
ones(n) == [i \in 1 .. n |-> 1]

\* the matrix with its last entry as stacked
CornerKept(A) == A

\* line 97: A[-1, -1] = 0
CornerZeroed(A) == [A EXCEPT ![Len(A)][Len(A[Len(A)])] = 0]

\* the injected volume over the cell area less the leak-off
VolumeChangeWithoutTip(w_lst_tmstp, wTip_, EltTip, dt, Q, ElemArea, lkOff) ==
    ((Sum(Q) * dt) \div ElemArea) - Sum(lkOff)

\* line 100: the last entry of S; sum(Q) * dt is a multiple of ElemArea for
\* the arguments drawn below
VolumeChange(w_lst_tmstp, wTip_, EltTip, dt, Q, ElemArea, lkOff) ==
    ((Sum(Q) * dt) \div ElemArea)
        - (Sum(wTip_) - Sum(Take(w_lst_tmstp, EltTip))) - Sum(lkOff)

\* lines 86-102; wTip_ is the argument wTip
MakeEquationSystem_volumeControl(w_lst_tmstp, wTip_, EltChannel, EltTip, sigma_o, C, dt, Q, ElemArea, lkOff) ==
    LET n == Len(EltChannel)
        Ccc == ix_(C, EltChannel, EltChannel)
        Cct == ix_(C, EltChannel, EltTip)
        stacked == vstack(hstack(Ccc, [i \in 1 .. n |-> 0 - 1]), ones(n + 1))
        CccW == dot(Ccc, Take(w_lst_tmstp, EltChannel))
        CctW == dot(Cct, wTip_)
        S == [i \in 1 .. n |-> 0 - sigma_o[EltChannel[i]] - CccW[i] - CctW[i]]
    IN  [A |-> CornerZeroed(stacked),
         S |-> Append(S, VolumeChange(w_lst_tmstp, wTip_, EltTip, dt, Q,
                                      ElemArea, lkOff))]

\* lines 13-32; LkOff_ is the argument LkOff
MakeEquationSystem_volumeControl_symmetric(w_lst_tmstp, wTip_sym, EltChannel_sym, EltTip_sym, C_s, dt, Q, sigma_o, ElemArea, LkOff_, vol_weights, sym_elements, dwTip) ==
    LET n == Len(EltChannel_sym)
        Ccc == ix_(C_s, EltChannel_sym, EltChannel_sym)
        Cct == ix_(C_s, EltChannel_sym, EltTip_sym)
        weights == Append(Take(vol_weights, EltChannel_sym), 0)
        CccW == dot(Ccc, Take(w_lst_tmstp, Take(sym_elements, EltChannel_sym)))
        CctW == dot(Cct, wTip_sym)
        S == [i \in 1 .. n |->
                 0 - sigma_o[EltChannel_sym[i]] - CccW[i] - CctW[i]]
    IN  [A |-> vstack(hstack(Ccc, [i \in 1 .. n |-> 0 - 1]), weights),
         S |-> Append(S, ((Sum(Q) * dt) \div ElemArea) - Sum(dwTip)
                             - Sum(LkOff_))]

\* the variables of the call of time_step_explicit_front
callVars ==
    <<pc, Fr_lstTmStp, Fr_entry, timeStep, Qin, sim_properties,
      mat_properties, sgndDist_k, expansions, EltsTipNew, geometry,
                   correct_size_of_pstv_region,
      FillFrac_k, lists_k, wTip, LkOff, data, itr, passes, Fr_kplus1,
      exitstatus, returned>>

\* the lists of Channel elements and of Tip elements handed to the assembly
ChannelLists == {<<0>>, <<1, 0>>}
TipLists == {<<2>>, <<3, 2>>}

\* an elasticity matrix, different in every entry of a row and not symmetric
ElasticityMatrix(k) ==
    [i \in VcElts |-> [j \in VcElts |->
        IF i = j THEN 3 + k + i ELSE 0 - (1 + ((i + (2 * j) + k) % 3))]]

\* The arguments of a call: sigma_o grows by s from an element to the next,
\* the width of the last step is positive in the
\* Channel, tip0 in the Tip and 0 elsewhere, the injected volume of the last
\* step is the fracture volume of the last step plus excess.
Arguments(variant, EltChannel, EltTip, k, s, tip0, q, ElemArea, dt, lk, excess) ==
    LET inChannel == SeqToSet(EltChannel)
        inTip == SeqToSet(EltTip)
        w_lst_tmstp == [e \in VcElts |-> IF e \in inChannel THEN 2 + e
                                         ELSE IF e \in inTip THEN tip0 ELSE 0]
        tipWidth == [i \in 1 .. Len(EltTip) |-> i + k]
    IN  [pc |-> "arguments",
         variant |-> variant,
         w_lst_tmstp |-> w_lst_tmstp,
         wTip |-> tipWidth,
         EltChannel |-> EltChannel,
         EltTip |-> EltTip,
         sigma_o |-> [e \in VcElts |-> k + (s * e)],
         C |-> ElasticityMatrix(k),
         dt |-> dt,
         Q |-> [e \in VcElts |-> IF e = 0 THEN q * ElemArea ELSE 0],
         ElemArea |-> ElemArea,
         lkOff |-> [i \in 1 .. (Len(EltChannel) + Len(EltTip)) |->
                       IF i = 1 THEN lk ELSE 0],
         vol_weights |-> [e \in VcElts |-> IF e = 0 THEN 1 ELSE 2 * e],
         sym_elements |-> [e \in VcElts |-> (e + 1) % VcNumberOfElts],
         dwTip |-> [i \in 1 .. Len(EltTip) |-> tipWidth[i] - tip0],
         injectedVol |-> (Sum(w_lst_tmstp) * ElemArea) + excess,
         A |-> << >>, S |-> << >>, sol |-> << >>,
         w |-> w_lst_tmstp,
         FractureVolume |-> Sum(w_lst_tmstp) * ElemArea,
         injectedVol_kplus1 |-> (Sum(w_lst_tmstp) * ElemArea) + excess]

InitVC ==
    /\ \E variant \in {"plain", "symmetric"},
          EltChannel \in ChannelLists, EltTip \in TipLists,
          k \in 0 .. 1, s \in 0 .. MaxStressStep, tip0 \in 0 .. 1,
          q \in 1 .. 2, ElemArea \in 1 .. 2, dt \in 1 .. 2, lk \in 0 .. 1,
          excess \in 0 .. 1 :
          vc = Arguments(variant, EltChannel, EltTip, k, s, tip0, q,
                         ElemArea, dt, lk, excess)
    /\ pc = "idle"
    /\ Fr_lstTmStp = None /\ Fr_entry = None /\ Fr_kplus1 = None
    /\ timeStep = 0 /\ Qin = 0
    /\ sim_properties = None /\ mat_properties = None
    /\ sgndDist_k = Unbound /\ FillFrac_k = Unbound
    /\ wTip = Unbound /\ LkOff = Unbound
    /\ EltsTipNew = None /\ geometry = None /\ lists_k = None /\ data = None
    /\ correct_size_of_pstv_region = None
    /\ expansions = 0 /\ itr = 0 /\ passes = 0
    /\ exitstatus = None /\ returned = None

\* the call MakeEquationSystem_volumeControl(...)
Assemble ==
    /\ vc.pc = "arguments"
    /\ vc.variant = "plain"
    /\ LET sys == MakeEquationSystem_volumeControl(vc.w_lst_tmstp, vc.wTip,
                      vc.EltChannel, vc.EltTip, vc.sigma_o, vc.C, vc.dt,
                      vc.Q, vc.ElemArea, vc.lkOff)
       IN  vc' = [vc EXCEPT !.pc = "assembled", !.A = sys.A, !.S = sys.S]
    /\ UNCHANGED callVars

\* the call MakeEquationSystem_volumeControl_symmetric(...)
AssembleSymmetric ==
    /\ vc.pc = "arguments"
    /\ vc.variant = "symmetric"
    /\ LET sys == MakeEquationSystem_volumeControl_symmetric(vc.w_lst_tmstp,
                      vc.wTip, vc.EltChannel, vc.EltTip, vc.C, vc.dt, vc.Q,
                      vc.sigma_o, vc.ElemArea, vc.lkOff, vc.vol_weights,
                      vc.sym_elements, vc.dwTip)
       IN  vc' = [vc EXCEPT !.pc = "assembled", !.A = sys.A, !.S = sys.S]
    /\ UNCHANGED callVars

\* the vectors (dw, dp) looked for
Unknowns(n) ==
    {Append(dw, dp) : dw \in [1 .. n -> (0 - MaxDeltaW) .. MaxDeltaW],
                      dp \in (0 - MaxDeltaP) .. MaxDeltaP}

\* A x = S, row by row
Solves(A, x, S) ==
    \A i \in 1 .. Len(A) :
        Sum([j \in 1 .. Len(x) |-> A[i][j] * x[j]]) = S[i]

\* any solution of the system A x = S
SolveSystem ==
    /\ vc.pc = "assembled"
    /\ vc.variant = "plain"
    /\ \E x \in Unknowns(Len(vc.EltChannel)) :
          /\ Solves(vc.A, x, vc.S)
          /\ vc' = [vc EXCEPT !.pc = "solved", !.sol = x]
    /\ UNCHANGED callVars

\* the position of an element in a list of elements
IndexOf(list, e) == CHOOSE i \in 1 .. Len(list) : list[i] = e

\* the width solve_width_pressure makes of a solution: w_last + dw in the
\* Channel, the tip width in the Tip, the width of the last step elsewhere
WidthOfSolution(w_lst_tmstp, EltChannel, EltTip, tipWidth, sol) ==
    [e \in VcElts |->
        IF e \in SeqToSet(EltChannel)
        THEN w_lst_tmstp[e] + sol[IndexOf(EltChannel, e)]
        ELSE IF e \in SeqToSet(EltTip)
        THEN tipWidth[IndexOf(EltTip, e)]
        ELSE w_lst_tmstp[e]]

\* line 484 Fr_kplus1.w = w_n_plus1, line 519 FractureVolume and line 675
\* injectedVol, with sum(Qin) = sum(Q), timeStep = dt and the mesh's
\* EltArea = ElemArea
UpdateSnapshot ==
    /\ vc.pc = "solved"
    /\ LET w_n_plus1 == WidthOfSolution(vc.w_lst_tmstp, vc.EltChannel,
                                        vc.EltTip, vc.wTip, vc.sol)
       IN  vc' = [vc EXCEPT
                     !.pc = "updated",
                     !.w = w_n_plus1,
                     !.FractureVolume = Sum(w_n_plus1) * vc.ElemArea,
                     !.injectedVol_kplus1 = vc.injectedVol + Sum(vc.Q) * vc.dt]
    /\ UNCHANGED callVars

NextVC ==
    \/ Assemble
    \/ AssembleSymmetric
    \/ SolveSystem
    \/ UpdateSnapshot

SpecVC == InitVC /\ [][NextVC]_vars


(***************************************************************************)
(* MakeEquationSystem_mechLoading: a given width imposed on a loaded       *)
(* element.                                                                *)
(***************************************************************************)
\* np.zeros of a row
zeros(n) == [i \in 1 .. n |-> 0]

\* the matrix with its last row as stacked
LastRowKept(A, EltChannel, EltLoaded) == A

\* line 120: A[-1, np.where(EltChannel == EltLoaded)[0]] = 1
LastRowAtLoaded(A, EltChannel, EltLoaded) ==
    [A EXCEPT ![Len(A)] =
        [j \in 1 .. Len(A[Len(A)]) |->
            IF j <= Len(EltChannel) /\ EltChannel[j] = EltLoaded
            THEN 1 ELSE A[Len(A)][j]]]

\* lines 108-125; wTip_ is the argument wTip
MakeEquationSystem_mechLoading(wTip_, EltChannel, EltTip, C, EltLoaded, w_loaded) ==
    LET n == Len(EltChannel)
        Ccc == ix_(C, EltChannel, EltChannel)
        Cct == ix_(C, EltChannel, EltTip)
        stacked == vstack(hstack(Ccc, [i \in 1 .. n |-> 0 - 1]), zeros(n + 1))
        CctW == dot(Cct, wTip_)
    IN  [A |-> LastRowAtLoaded(stacked, EltChannel, EltLoaded),
         S |-> Append([i \in 1 .. n |-> 0 - CctW[i]], w_loaded)]

\* the largest width imposed on the loaded element
MaxLoadedWidth == 3
\* the elasticity matrices drawn are ElasticityMatrix(0 .. MaxElasticityShift)
MaxElasticityShift == 3

\* the arguments of a call, the loaded element any element of the arrays
LoadingArguments(EltChannel, EltTip, k, EltLoaded, w_loaded) ==
    [pc |-> "arguments",
     wTip |-> [i \in 1 .. Len(EltTip) |-> i + k],
     EltChannel |-> EltChannel,
     EltTip |-> EltTip,
     C |-> ElasticityMatrix(k),
     EltLoaded |-> EltLoaded,
     w_loaded |-> w_loaded,
     A |-> << >>, S |-> << >>, sol |-> << >>,
     w |-> [e \in VcElts |-> 0]]

InitML ==
    /\ \E EltChannel \in ChannelLists, EltTip \in TipLists,
          k \in 0 .. MaxElasticityShift,
          EltLoaded \in VcElts, w_loaded \in 0 .. MaxLoadedWidth :
          vc = LoadingArguments(EltChannel, EltTip, k, EltLoaded, w_loaded)
    /\ pc = "idle"
    /\ Fr_lstTmStp = None /\ Fr_entry = None /\ Fr_kplus1 = None
    /\ timeStep = 0 /\ Qin = 0
    /\ sim_properties = None /\ mat_properties = None
    /\ sgndDist_k = Unbound /\ FillFrac_k = Unbound
    /\ wTip = Unbound /\ LkOff = Unbound
    /\ EltsTipNew = None /\ geometry = None /\ lists_k = None /\ data = None
    /\ correct_size_of_pstv_region = None
    /\ expansions = 0 /\ itr = 0 /\ passes = 0
    /\ exitstatus = None /\ returned = None

\* the call MakeEquationSystem_mechLoading(...)
AssembleMechLoading ==
    /\ vc.pc = "arguments"
    /\ LET sys == MakeEquationSystem_mechLoading(vc.wTip, vc.EltChannel,
                      vc.EltTip, vc.C, vc.EltLoaded, vc.w_loaded)
       IN  vc' = [vc EXCEPT !.pc = "assembled", !.A = sys.A, !.S = sys.S]
    /\ UNCHANGED callVars

\* the width of a solution (w, p): w in the Channel, the tip width in the
\* Tip, zero outside the fracture
WidthOfLoading(EltChannel, EltTip, tipWidth, sol) ==
    [e \in VcElts |->
        IF e \in SeqToSet(EltChannel) THEN sol[IndexOf(EltChannel, e)]
        ELSE IF e \in SeqToSet(EltTip) THEN tipWidth[IndexOf(EltTip, e)]
        ELSE 0]

\* any solution (w, p) of the system A x = S
SolveMechLoading ==
    /\ vc.pc = "assembled"
    /\ \E x \in Unknowns(Len(vc.EltChannel)) :
          /\ Solves(vc.A, x, vc.S)
          /\ vc' = [vc EXCEPT !.pc = "solved", !.sol = x,
                       !.w = WidthOfLoading(vc.EltChannel, vc.EltTip,
                                            vc.wTip, x)]
    /\ UNCHANGED callVars

NextML ==
    \/ AssembleMechLoading
    \/ SolveMechLoading

SpecML == InitML /\ [][NextML]_vars


(***************************************************************************)
(* CartesianMesh.__init__: the construction of a mesh for a requested      *)
(* number of cells, and the neighbours of its cells.                       *)
(***************************************************************************)
\* the largest number of cells requested in a direction
MaxCellRequest == 6

\* the object under construction: the arguments nx and ny of __init__
MeshRequest(a, b) ==
    [pc |-> "request", nxRequested |-> a, nyRequested |-> b,
     nx |-> 0, ny |-> 0, NumberOfElts |-> 0,
     Frontlist |-> << >>, NeiElements |-> << >>,
     elem |-> 0, neighbors |-> << >>]

InitMesh ==
    /\ \E a, b \in 1 .. MaxCellRequest : vc = MeshRequest(a, b)
    /\ pc = "idle"
    /\ Fr_lstTmStp = None /\ Fr_entry = None /\ Fr_kplus1 = None
    /\ timeStep = 0 /\ Qin = 0
    /\ sim_properties = None /\ mat_properties = None
    /\ sgndDist_k = Unbound /\ FillFrac_k = Unbound
    /\ wTip = Unbound /\ LkOff = Unbound
    /\ EltsTipNew = None /\ geometry = None /\ lists_k = None /\ data = None
    /\ correct_size_of_pstv_region = None
    /\ expansions = 0 /\ itr = 0 /\ passes = 0
    /\ exitstatus = None /\ returned = None

\* lines 144-176.  With one cell in a direction the cell size of lines
\* 151-152 divides by zero: a ZeroDivisionError for a Python number, an
\* infinite cell size for a numpy scalar.
ConstructMesh ==
    /\ vc.pc = "request"
    /\ LET nx_ == set_cell_number(vc.nxRequested)
           ny_ == set_cell_number(vc.nyRequested)
       IN \E LxIsNumpyScalar \in BOOLEAN :
             IF (nx_ = 1 \/ ny_ = 1) /\ ~LxIsNumpyScalar
             THEN vc' = [vc EXCEPT !.pc = "ZeroDivisionError",
                                   !.nx = nx_, !.ny = ny_]
             ELSE vc' = [vc EXCEPT !.pc = "mesh",
                                   !.nx = nx_, !.ny = ny_,
                                   !.NumberOfElts = nx_ * ny_,
                                   !.Frontlist = get_Frontlist(nx_, ny_),
                                   !.NeiElements = get_NeiElements(nx_, ny_)]
    /\ UNCHANGED callVars

\* a caller reads the row mesh.NeiElements[elem] of a cell of the mesh
ReadNeighbors ==
    /\ vc.pc \in {"mesh", "neighbors"}
    /\ \E e \in 0 .. vc.NumberOfElts - 1 :
          vc' = [vc EXCEPT !.pc = "neighbors", !.elem = e,
                           !.neighbors = vc.NeiElements[e]]
    /\ UNCHANGED callVars

NextMesh ==
    \/ ConstructMesh
    \/ ReadNeighbors

SpecMesh == InitMesh /\ [][NextMesh]_vars


(***************************************************************************)
(* adapive_time_ref_factory: the object the driver scripts install as      *)
(* simulProp.adaptive_time_refinement.  Aspect ratios are in thousandths,  *)
(* times are even numbers of half time units, so that the mid-point of two *)
(* times is a time.                                                        *)
(***************************************************************************)
\* aspect_ratio_toll = 0.001
aspect_ratio_toll == 1

\* aspect_ratio_max = 1.02 in one driver script and 1.5 in the other
AspectRatioMaxima == {1020, 1500}

\* how far from the band [aspect_ratio_max, aspect_ratio_max + toll) the aspect
\* ratios of a call are taken
MaxAspectRatioStep == 1

\* the largest time of the current fracture and the largest time step, in
\* time units
MaxRefTime == 2
MaxRefTimeStep == 2

\* self.upper_time_bound = None, self.lower_time_bound = None
NoTimeBound == -1

\* the aspect ratios get_fracture_sizes may give for a fracture, NaN the 0/0 of
\* a footprint without a front segment near the axes
AspectRatios(self) ==
    ((self.aspect_ratio_max - MaxAspectRatioStep) ..
     (self.aspect_ratio_max + self.aspect_ratio_toll + MaxAspectRatioStep))
    \cup {NaN}

\* __init__, lines 144-150
adapive_time_ref_factory(aspect_ratio_max_, aspect_ratio_toll_) ==
    [aspect_ratio_max |-> aspect_ratio_max_,
     aspect_ratio_toll |-> aspect_ratio_toll_,
     active_adaptive_time_ref |-> FALSE,
     upper_time_bound |-> NoTimeBound,
     lower_time_bound |-> NoTimeBound]

\* a refinement that starts whenever the new aspect ratio is above the band
BridgingWhenAbove(self, aspect_ratio_c, aspect_ratio_n) ==
    Ge(aspect_ratio_n, self.aspect_ratio_max + self.aspect_ratio_toll)

\* lines 166-167: aspect_ratio_bridging_target
BridgingTarget(self, aspect_ratio_c, aspect_ratio_n) ==
    /\ Lt(aspect_ratio_c, self.aspect_ratio_max)
    /\ Ge(aspect_ratio_n, self.aspect_ratio_max + self.aspect_ratio_toll)

\* np.abs(np.abs(upper + lower) * factor - Fr_current.time), for a factor in
\* hundredths: 0.5 in analyse_bt_fixed_ar_Kiter.py and random.uniform(0.49,
\* 0.51) in analyse_bt.py
RefinedTimeStepBy(factor, upper, lower, time) ==
    Abs((Abs(upper + lower) * factor) \div 100 - time)

\* np.abs(np.abs(upper + lower) * 0.5 - Fr_current.time)
RefinedTimeStep(upper, lower, time) ==
    RefinedTimeStepBy(50, upper, lower, time)

\* __call__, lines 152-196: the object after the call and what the call
\* returns, for the factor of the refined time step
CallBy(factor, self, aspect_ratio_c, aspect_ratio_n, time_c, time_n, timestep) ==
    LET above == Ge(aspect_ratio_n,
                    self.aspect_ratio_max + self.aspect_ratio_toll)
        below == Lt(aspect_ratio_n, self.aspect_ratio_max)
        within == /\ Ge(aspect_ratio_n, self.aspect_ratio_max)
                  /\ Lt(aspect_ratio_n,
                        self.aspect_ratio_max + self.aspect_ratio_toll)
    IN IF BridgingTarget(self, aspect_ratio_c, aspect_ratio_n)
          \/ self.active_adaptive_time_ref
       THEN IF ~self.active_adaptive_time_ref
            THEN [self |-> [self EXCEPT !.active_adaptive_time_ref = TRUE,
                                        !.lower_time_bound = time_c,
                                        !.upper_time_bound = time_n],
                  ret |-> <<RefinedTimeStepBy(factor, time_n, time_c, time_c),
                            TRUE>>]
            ELSE IF above
            THEN [self |-> [self EXCEPT !.upper_time_bound = time_n],
                  ret |-> <<RefinedTimeStepBy(factor, time_n,
                                              self.lower_time_bound, time_c),
                            TRUE>>]
            ELSE IF below
            THEN [self |-> [self EXCEPT !.lower_time_bound = time_n],
                  ret |-> <<RefinedTimeStepBy(factor, self.upper_time_bound,
                                              time_n, time_c), TRUE>>]
            ELSE IF within
            THEN [self |-> [self EXCEPT !.active_adaptive_time_ref = FALSE,
                                        !.upper_time_bound = NoTimeBound,
                                        !.lower_time_bound = NoTimeBound],
                  ret |-> <<timestep, FALSE>>]
            \* line 195 builds a SystemExit and does not raise it
            ELSE [self |-> self, ret |-> <<timestep, FALSE>>]
       ELSE [self |-> self, ret |-> <<timestep, FALSE>>]

\* __call__ of analyse_bt_fixed_ar_Kiter.py, lines 152-196
Call(self, aspect_ratio_c, aspect_ratio_n, time_c, time_n, timestep) ==
    CallBy(50, self, aspect_ratio_c, aspect_ratio_n, time_c, time_n, timestep)

\* the object as the driver script constructs it (line 218), no call made yet;
\* before is the object as it was when the last call began
InitRef ==
    /\ \E m \in AspectRatioMaxima :
          vc = [pc |-> "constructed",
                self |-> adapive_time_ref_factory(m, aspect_ratio_toll),
                before |-> adapive_time_ref_factory(m, aspect_ratio_toll),
                aspect_ratio_c |-> NaN, aspect_ratio_n |-> NaN,
                time_c |-> 0, time_n |-> 0, timestep |-> 0,
                ret |-> << >>]
    /\ pc = "idle"
    /\ Fr_lstTmStp = None /\ Fr_entry = None /\ Fr_kplus1 = None
    /\ timeStep = 0 /\ Qin = 0
    /\ sim_properties = None /\ mat_properties = None
    /\ sgndDist_k = Unbound /\ FillFrac_k = Unbound
    /\ wTip = Unbound /\ LkOff = Unbound
    /\ EltsTipNew = None /\ geometry = None /\ lists_k = None /\ data = None
    /\ correct_size_of_pstv_region = None
    /\ expansions = 0 /\ itr = 0 /\ passes = 0
    /\ exitstatus = None /\ returned = None

\* one call of the object by the controller, for a current fracture and the
\* fracture of a step of size timestep from it
AdaptiveTimeRefinement ==
    /\ vc.pc \in {"constructed", "called"}
    /\ \E aspect_ratio_c \in AspectRatios(vc.self),
          aspect_ratio_n \in AspectRatios(vc.self),
          t \in 0 .. MaxRefTime, dt \in 1 .. MaxRefTimeStep :
          LET time_c == 2 * t
              timestep == 2 * dt
              r == Call(vc.self, aspect_ratio_c, aspect_ratio_n,
                        time_c, time_c + timestep, timestep)
          IN vc' = [pc |-> "called", self |-> r.self, before |-> vc.self,
                    aspect_ratio_c |-> aspect_ratio_c,
                    aspect_ratio_n |-> aspect_ratio_n,
                    time_c |-> time_c, time_n |-> time_c + timestep,
                    timestep |-> timestep, ret |-> r.ret]
    /\ UNCHANGED callVars

NextRef == AdaptiveTimeRefinement

SpecRef == InitRef /\ [][NextRef]_vars


(***************************************************************************)
(* get_front_region called on its own: the Ribbon cells are cells of one   *)
(* ring around the central cell, at one distance from the front.           *)
(***************************************************************************)
\* the ring of the Ribbon cells and their largest distance to the front, in
\* cells and in half cells
RibbonRing == 3
MaxRibbonDist == 3

\* the cells of ring k on the axes and on the diagonals through the centre
RibbonCandidates(k) ==
    {e \in Cells :
        LET dx == Abs(Col(e) - Col(CenterElt))
            dy == Abs(Row(e) - Row(CenterElt))
        IN  /\ Max(dx, dy) = k
            /\ Min(dx, dy) \in {0, k}}

\* np.arange(NumberOfElts)
CellSeq == [k \in 1 .. NumberOfElts |-> k - 1]

\* the cells of a set listed twice, as an array that np.unique has not seen
ArrayWithRepeats(S) ==
    SelectSeq(CellSeq, LAMBDA e : e \in S) \o SelectSeq(CellSeq, LAMBDA e : e \in S)

\* a set of cells as the sorted array np.unique and np.setdiff1d return
SortedArray(S) == SelectSeq(CellSeq, LAMBDA e : e \in S)

InitFR ==
    /\ \E EltRibbon \in SUBSET RibbonCandidates(RibbonRing) \ {{}},
          d \in 0 .. MaxRibbonDist :
          vc = [pc |-> "arguments",
                EltRibbon |-> EltRibbon,
                sgndDist_k |-> [e \in Cells |-> 0 - d],
                band |-> {}, out_to_add |-> << >>, front_region |-> << >>]
    /\ pc = "idle"
    /\ Fr_lstTmStp = None /\ Fr_entry = None /\ Fr_kplus1 = None
    /\ timeStep = 0 /\ Qin = 0
    /\ sim_properties = None /\ mat_properties = None
    /\ sgndDist_k = Unbound /\ FillFrac_k = Unbound
    /\ wTip = Unbound /\ LkOff = Unbound
    /\ EltsTipNew = None /\ geometry = None /\ lists_k = None /\ data = None
    /\ correct_size_of_pstv_region = None
    /\ expansions = 0 /\ itr = 0 /\ passes = 0
    /\ exitstatus = None /\ returned = None

\* the call get_front_region(mesh, EltRibbon, sgndDist_k[EltRibbon]): the band
\* of line 41, out_to_add of lines 58-64 and the array of line 66
CallGetFrontRegion ==
    /\ vc.pc = "arguments"
    /\ LET band == FrontBand(vc.EltRibbon, vc.sgndDist_k)
           out_to_add == SortedArray(OutToAdd(band))
       IN vc' = [vc EXCEPT !.pc = "returned",
                           !.band = band,
                           !.out_to_add = out_to_add,
                           !.front_region = SortedArray(band) \o out_to_add]
    /\ UNCHANGED callVars

NextFR == CallGetFrontRegion

SpecFR == InitFR /\ [][NextFR]_vars


(***************************************************************************)
(* remesh.py: get_extensionsal_domain_limits on a mesh and the sides to    *)
(* extend, the mesh built from what it returns, and mapping_old_indexes    *)
(* from the old mesh to that one.  Lengths are integers, the extension     *)
(* factors are counted in halves.                                          *)
(***************************************************************************)
\* the largest number of cells of the old mesh in a direction
MaxOldCells == 5
\* the largest cell size of the old mesh
MaxCellSize == 2
\* the largest extension factor, in halves
MaxFactorHalves == 4

\* the numbers of cells a mesh may have in a direction (set_cell_number)
OldCellNumbers == {n \in 3 .. MaxOldCells : n % 2 = 1}

\* the extension factors 1.5, 2.0, ... in halves
ExtensionFactors == 3 .. MaxFactorHalves

\* the sides: 0 negative y, 1 positive y, 2 negative x, 3 positive x
Sides == 0 .. 3

\* a Python list of two entries
Pair(a, b) == [i \in 0 .. 1 |-> IF i = 0 THEN a ELSE b]

\* int(x) of the float num / den, den > 0: the fraction is cut off
IntOf(num, den) == IF num >= 0 THEN num \div den ELSE 0 - ((0 - num) \div den)

\* CartesianMesh(Lx, Ly, nx, ny) around the origin with cells of hx by hy
OldMesh(cellsx, cellsy, sizex, sizey) ==
    [nx |-> cellsx, ny |-> cellsy, hx |-> sizex, hy |-> sizey,
     NumberOfElts |-> cellsx * cellsy,
     domainLimits |-> [i \in 0 .. 3 |->
                         IF i = 0 THEN 0 - (sizey * (cellsy - 1)) \div 2
                         ELSE IF i = 1 THEN (sizey * (cellsy - 1)) \div 2
                         ELSE IF i = 2 THEN 0 - (sizex * (cellsx - 1)) \div 2
                         ELSE (sizex * (cellsx - 1)) \div 2]]

\* lines 89-92: nx_init, ny_init, hx_init and hy_init, the last one read from
\* old_mesh.hx
InitialValues(old_mesh) ==
    [nx_init |-> old_mesh.nx, ny_init |-> old_mesh.ny,
     hx_init |-> old_mesh.hx, hy_init |-> old_mesh.hx]

\* an extension of both sides only when both are requested
OnlyWhenBothRequested(symmetric, extension_sides, a, b) ==
    extension_sides[a] /\ extension_sides[b]

\* lines 109 and 160: symmetric or extension_sides[a] * extension_sides[b]
ExtendBothSides(symmetric, extension_sides, a, b) ==
    symmetric \/ (extension_sides[a] /\ extension_sides[b])

\* the number of elements as computed
NotMadeEven(elems_add) == elems_add

\* lines 114-115: if elems_add % 2 != 0: elems_add = elems_add + 1
MadeEven(elems_add) ==
    IF elems_add % 2 # 0 THEN elems_add + 1 ELSE elems_add

\* lines 111 and 162: int(n_init * (np.mean(extension_factor[a:b+1]) - 1))
ElemsAddMean(n_init, extension_factor, a, b) ==
    MadeEven(IntOf(n_init * (extension_factor[a] + extension_factor[b] - 4), 4))

\* lines 133 and 184: int(n_init * (extension_factor[side] - 1))
ElemsAddSide(n_init, extension_factor, side) ==
    MadeEven(IntOf(n_init * (extension_factor[side] - 2), 2))

InitRemesh ==
    /\ \E cellsx \in OldCellNumbers, cellsy \in OldCellNumbers,
          sizex \in 1 .. MaxCellSize, sizey \in 1 .. MaxCellSize,
          extension_bools \in [Sides -> BOOLEAN],
          extension_factor \in [Sides -> ExtensionFactors],
          symmetric \in BOOLEAN :
          LET old_mesh == OldMesh(cellsx, cellsy, sizex, sizey)
          IN vc = [pc |-> "loop",
                   old_mesh |-> old_mesh,
                   extension_bools |-> extension_bools,
                   extension_factor |-> extension_factor,
                   symmetric |-> symmetric,
                   side |-> 0,
                   old_limits |->
                       Pair(Pair(old_mesh.domainLimits[2],
                                 old_mesh.domainLimits[3]),
                            Pair(old_mesh.domainLimits[0],
                                 old_mesh.domainLimits[1])),
                   old_elems |-> Pair(cellsx, cellsy),
                   extension_sides |-> extension_bools,
                   new_dirs |-> extension_bools,
                   times |-> [s \in Sides |-> 0],
                   added |-> [s \in Sides |-> 0],
                   new_mesh |-> None,
                   new_indexes |-> << >>]
    /\ pc = "idle"
    /\ Fr_lstTmStp = None /\ Fr_entry = None /\ Fr_kplus1 = None
    /\ timeStep = 0 /\ Qin = 0
    /\ sim_properties = None /\ mat_properties = None
    /\ sgndDist_k = Unbound /\ FillFrac_k = Unbound
    /\ wTip = Unbound /\ LkOff = Unbound
    /\ EltsTipNew = None /\ geometry = None /\ lists_k = None /\ data = None
    /\ correct_size_of_pstv_region = None
    /\ expansions = 0 /\ itr = 0 /\ passes = 0
    /\ exitstatus = None /\ returned = None

\* lines 105-211: the pass of the loop for one side that is to be extended.
\* axis is 1 for the sides 0 and 1 (y) and 0 for the sides 2 and 3 (x), lower
\* is the side of the negative direction and upper the other one.
ExtendSide(side) ==
    LET init == InitialValues(vc.old_mesh)
        axis == IF side \in {0, 1} THEN 1 ELSE 0
        lower == IF axis = 1 THEN 0 ELSE 2
        upper == lower + 1
        n_init == IF axis = 1 THEN init.ny_init ELSE init.nx_init
        h_init == IF axis = 1 THEN init.hy_init ELSE init.hx_init
        old == vc.old_limits[axis]
        WithAxis(P, v) == [P EXCEPT ![axis] = v]
    IN IF ExtendBothSides(vc.symmetric, vc.extension_sides, lower, upper)
       THEN LET elems_add == ElemsAddMean(n_init, vc.extension_factor,
                                          lower, upper)
            IN vc' = [vc EXCEPT
                 !.old_limits = WithAxis(vc.old_limits,
                                    Pair(old[0] - elems_add * h_init,
                                         old[1] + elems_add * h_init)),
                 !.old_elems = WithAxis(vc.old_elems,
                                   vc.old_elems[axis] + 2 * elems_add),
                 !.extension_sides = [vc.extension_sides EXCEPT
                                         ![lower] = FALSE, ![upper] = FALSE],
                 !.new_dirs = [vc.new_dirs EXCEPT
                                  ![lower] = TRUE, ![upper] = TRUE],
                 !.times = [vc.times EXCEPT ![lower] = @ + 1,
                                            ![upper] = @ + 1],
                 !.added = [vc.added EXCEPT ![lower] = @ + elems_add,
                                            ![upper] = @ + elems_add],
                 !.side = side + 1]
       ELSE LET elems_add == ElemsAddSide(n_init, vc.extension_factor, side)
            IN vc' = [vc EXCEPT
                 !.old_limits = WithAxis(vc.old_limits,
                                    IF side = lower
                                    THEN Pair(old[0] - elems_add * h_init,
                                              old[1])
                                    ELSE Pair(old[0],
                                              old[1] + elems_add * h_init)),
                 !.old_elems = WithAxis(vc.old_elems,
                                   vc.old_elems[axis] + elems_add),
                 !.extension_sides = [vc.extension_sides EXCEPT
                                         ![side] = FALSE],
                 !.new_dirs = [vc.new_dirs EXCEPT ![side] = TRUE],
                 !.times = [vc.times EXCEPT ![side] = @ + 1],
                 !.added = [vc.added EXCEPT ![side] = @ + elems_add],
                 !.side = side + 1]

\* lines 102-214: one pass of the loop over the four sides, and the return
GetExtensionalDomainLimits ==
    /\ vc.pc = "loop"
    /\ IF vc.side = 4
       THEN vc' = [vc EXCEPT !.pc = "limits"]
       ELSE IF vc.extension_sides[vc.side]
       THEN ExtendSide(vc.side)
       ELSE vc' = [vc EXCEPT !.side = vc.side + 1]
    /\ UNCHANGED callVars

\* CartesianMesh(new_limits[0], new_limits[1], elems[0], elems[1]): the cell
\* numbers of set_cell_number and the limits as they are given
NewMesh(limits, elems) ==
    [nx |-> set_cell_number(elems[0]), ny |-> set_cell_number(elems[1]),
     NumberOfElts |-> set_cell_number(elems[0]) * set_cell_number(elems[1]),
     domainLimits |-> [i \in 0 .. 3 |->
                         IF i < 2 THEN limits[1][i] ELSE limits[0][i - 2]]]

\* every old index kept
same_indexes(new_mesh, mesh, direction) ==
    [k \in 0 .. mesh.NumberOfElts - 1 |-> k]

\* mapping_old_indexes, lines 18-85, for a direction with a side set.  The
\* halves of the code are kept in a sum that is doubled, and astype(int) cuts
\* the sum.
mapping_old_indexes(new_mesh, mesh, direction) ==
    LET dne == new_mesh.NumberOfElts - mesh.NumberOfElts
        dnx == new_mesh.nx - mesh.nx
        dny == new_mesh.ny - mesh.ny
        true_count == Cardinality({s \in Sides : direction[s]})
        floor(k) == k \div mesh.nx
        twice(k) ==
          IF true_count = 1
          THEN IF direction[0] THEN 2 * dne
               ELSE IF direction[1] THEN 0
               ELSE IF direction[2] THEN 2 * (floor(k) + 1) * dnx
               ELSE 2 * floor(k) * dnx
          ELSE IF true_count = 2
          THEN IF direction[0] /\ direction[1] THEN dne
               ELSE IF direction[2] /\ direction[3]
               THEN (2 * floor(k) + 1) * dnx
               ELSE IF direction[0] /\ direction[2]
               THEN 2 * new_mesh.nx * dny + 2 * (floor(k) + 1) * dnx
               ELSE IF direction[0] /\ direction[3]
               THEN 2 * new_mesh.nx * dny + 2 * floor(k) * dnx
               ELSE IF direction[1] /\ direction[2]
               THEN 2 * (floor(k) + 1) * dnx
               ELSE 2 * floor(k) * dnx
          ELSE IF true_count = 3
          THEN IF ~direction[0] THEN (2 * floor(k) + 1) * dnx
               ELSE IF ~direction[1]
               THEN 2 * new_mesh.nx * dny + (2 * floor(k) + 1) * dnx
               ELSE IF ~direction[2]
               THEN new_mesh.nx * dny + 2 * floor(k) * dnx
               ELSE new_mesh.nx * dny + 2 * (floor(k) + 1) * dnx
          ELSE new_mesh.nx * dny + (2 * floor(k) + 1) * dnx
    IN [k \in 0 .. mesh.NumberOfElts - 1 |-> IntOf(2 * k + twice(k), 2)]

\* the new mesh and the map of the old indexes, for the sides returned
MapOldIndexes ==
    /\ vc.pc = "limits"
    /\ LET new_mesh == NewMesh(vc.old_limits, vc.old_elems)
       IN IF \E s \in Sides : vc.new_dirs[s]
          THEN vc' = [vc EXCEPT
                 !.pc = "mapped",
                 !.new_mesh = new_mesh,
                 !.new_indexes = mapping_old_indexes(new_mesh, vc.old_mesh,
                                                     vc.new_dirs)]
          ELSE \* line 85: new_indexes is not bound
               vc' = [vc EXCEPT !.pc = "UnboundLocalError",
                                !.new_mesh = new_mesh]
    /\ UNCHANGED callVars

NextRemesh == GetExtensionalDomainLimits \/ MapOldIndexes

SpecRemesh == InitRemesh /\ [][NextRemesh]_vars

(***************************************************************************)
(* adapive_time_ref_factory with a caller that, when the object returns    *)
(* True, takes the step again from the same current fracture with the time *)
(* step returned.  The two driver scripts differ in the factor of the new  *)
(* time step.                                                              *)
(***************************************************************************)
\* the largest number of steps retried
MaxRetries == 3
\* the largest time of the current fracture, in multiples of 100 time steps
MaxCurrentTime == 1
\* the largest first time step, in multiples of the smallest one
MaxFirstStep == 2

\* the smallest first time step: MaxRetries + 1 halvings of it are exact
SmallestFirstStep == 2 ^ (MaxRetries + 3)

Scripts == {"analyse_bt_fixed_ar_Kiter.py", "analyse_bt.py"}

\* aspect_ratio_max of the script (lines 361 and 431), in thousandths
AspectRatioMaxOf(script) ==
    IF script = "analyse_bt.py" THEN 1800 ELSE 1020

\* the factor of the sum of the bounds, in hundredths: 0.5, or what
\* random.uniform(0.49, 0.51) may give
FactorsOf(script) == IF script = "analyse_bt.py" THEN 49 .. 51 ELSE {50}

InitRetry ==
    /\ \E script \in Scripts :
          LET self == adapive_time_ref_factory(AspectRatioMaxOf(script),
                                               aspect_ratio_toll)
          IN vc = [pc |-> "constructed", script |-> script,
                   self |-> self, before |-> self,
                   aspect_ratio_c |-> NaN, aspect_ratio_n |-> NaN,
                   time_c |-> 0, time_n |-> 0, timestep |-> 0, retries |-> 0]
    /\ pc = "idle"
    /\ Fr_lstTmStp = None /\ Fr_entry = None /\ Fr_kplus1 = None
    /\ timeStep = 0 /\ Qin = 0
    /\ sim_properties = None /\ mat_properties = None
    /\ sgndDist_k = Unbound /\ FillFrac_k = Unbound
    /\ wTip = Unbound /\ LkOff = Unbound
    /\ EltsTipNew = None /\ geometry = None /\ lists_k = None /\ data = None
    /\ correct_size_of_pstv_region = None
    /\ expansions = 0 /\ itr = 0 /\ passes = 0
    /\ exitstatus = None /\ returned = None

\* the call for the fracture Fr_new of a step of size timestep from
\* Fr_current; the caller retries the step with the time step returned when
\* the second value returned is True and accepts it otherwise
CallAfterStep(aspect_ratio_c, aspect_ratio_n, time_c, timestep, retries) ==
    \E factor \in FactorsOf(vc.script) :
       LET r == CallBy(factor, vc.self, aspect_ratio_c, aspect_ratio_n,
                       time_c, time_c + timestep, timestep)
       IN vc' = [vc EXCEPT !.pc = IF r.ret[2] THEN "retry" ELSE "accepted",
                           !.self = r.self, !.before = vc.self,
                           !.aspect_ratio_c = aspect_ratio_c,
                           !.aspect_ratio_n = aspect_ratio_n,
                           !.time_c = time_c, !.time_n = time_c + timestep,
                           !.timestep = r.ret[1], !.retries = retries]

\* the first step from a current fracture
FirstStep ==
    /\ vc.pc = "constructed"
    /\ \E aspect_ratio_c \in AspectRatios(vc.self),
          aspect_ratio_n \in AspectRatios(vc.self),
          t \in 0 .. MaxCurrentTime, dt \in 1 .. MaxFirstStep :
          CallAfterStep(aspect_ratio_c, aspect_ratio_n,
                        100 * SmallestFirstStep * t, SmallestFirstStep * dt,
                        0)
    /\ UNCHANGED callVars

\* the step taken again from the same current fracture with the time step
\* that was returned
RetryStep ==
    /\ vc.pc = "retry"
    /\ vc.retries < MaxRetries
    /\ \E aspect_ratio_n \in AspectRatios(vc.self) :
          CallAfterStep(vc.aspect_ratio_c, aspect_ratio_n, vc.time_c,
                        vc.timestep, vc.retries + 1)
    /\ UNCHANGED callVars

NextRetry == FirstStep \/ RetryStep

SpecRetry == InitRetry /\ [][NextRetry]_vars

(***************************************************************************)
(* The properties of the call.                                             *)
(***************************************************************************)
\* C1: when the call returns status 12 or status 3, the Fracture object passed
\* in has every field as it was when the call began.
C1_PreviousStateNotMutated ==
    (pc = "return" /\ exitstatus \in {3, 12}) => Fr_lstTmStp = Fr_entry

\* C2: when the tip widths have a NaN, the call returns status 4 with None and
\* leaves the Fracture object passed in as it was.
C2_NaNTipWidthReturns4 ==
    (pc = "return" /\ \E e \in DOMAIN wTip : IsNaN(wTip[e]))
        => exitstatus = 4 /\ returned = None /\ Fr_lstTmStp = Fr_entry

\* the statuses of the accepted steps
Accepted == {1, 14}

\* C3: a failure status comes with None, or with a partially updated state
\* that is not the object passed in (status 12); a full snapshot comes with
\* status 1 or 14 only.
C3_WhatIsReturned ==
    pc = "return" =>
        \/ exitstatus \in Accepted /\ returned = "Fr_kplus1"
        \/ exitstatus = 12 /\ returned \in {None, "Fr_kplus1"}
        \/ exitstatus \notin Accepted \cup {12} /\ returned = None

\* C4: no error condition ends the call by a propagated exception or by a
\* process exit.
C4_NoSystemExit == pc # "SystemExit"

\* the call has returned an accepted step
AcceptedStep == pc = "return" /\ exitstatus \in Accepted

C8_TipWidthsValidAtSolver ==
    pc = "solve" =>
        /\ \A e \in DOMAIN wTip : Ge(wTip[e], 0)
        /\ ~FEq(SumOver(wTip, DOMAIN wTip), 0)

\* the leak-off of the step is zero and the injected volume of the last step
\* is the volume of the fracture of the last step
BalancedBefore ==
    /\ Sum(vc.lkOff) = 0
    /\ vc.injectedVol = Sum(vc.w_lst_tmstp) * vc.ElemArea

\* C9: with zero leak-off and injectedVol = sum(w) * EltArea in the last step,
\* the snapshot made of any solution of the system of
\* MakeEquationSystem_volumeControl has injectedVol = sum(w) * EltArea, which
\* is its FractureVolume.
C9_VolumeBalance ==
    (vc.pc = "updated" /\ BalancedBefore) =>
        /\ vc.injectedVol_kplus1 = Sum(vc.w) * vc.ElemArea
        /\ vc.FractureVolume = vc.injectedVol_kplus1

\* a snapshot of a balanced step with two Channel cells whose tip widths and
\* Channel widths have changed
C9_BalancedStepSolved ==
    /\ vc.pc = "updated"
    /\ BalancedBefore
    /\ Len(vc.EltChannel) = 2
    /\ Sum(vc.wTip) # Sum(Take(vc.w_lst_tmstp, vc.EltTip))
    /\ \E i \in 1 .. 2 : vc.sol[i] # 0

\* C10: for n Channel cells the assembled matrix is (n+1) x (n+1) with the
\* block C[EltChannel, EltChannel] at the top left, -1 in the last column of
\* the first n rows, the weights in the last row (ones, or
\* vol_weights[EltChannel_sym] in the symmetric variant) and 0 at the bottom
\* right; the right-hand side is -sigma_o - Ccc w_last - Cct wTip in the first
\* n entries and sum(Q) dt / ElemArea - tip-width change - sum(leak-off) in
\* the last.
C10_BlockForm ==
    vc.pc = "assembled" =>
        LET n == Len(vc.EltChannel)
            m == Len(vc.EltTip)
            sym == vc.variant = "symmetric"
            ch(i) == vc.EltChannel[i]
            w_last(i) == IF sym THEN vc.w_lst_tmstp[vc.sym_elements[ch(i)]]
                         ELSE vc.w_lst_tmstp[ch(i)]
            tipChange ==
                IF sym THEN Sum(vc.dwTip)
                ELSE Sum([t \in 1 .. m |->
                             vc.wTip[t] - vc.w_lst_tmstp[vc.EltTip[t]]])
        IN  /\ Len(vc.A) = n + 1
            /\ \A i \in 1 .. (n + 1) : Len(vc.A[i]) = n + 1
            /\ \A i, j \in 1 .. n : vc.A[i][j] = vc.C[ch(i)][ch(j)]
            /\ \A i \in 1 .. n : vc.A[i][n + 1] = 0 - 1
            /\ \A j \in 1 .. n :
                  vc.A[n + 1][j] = IF sym THEN vc.vol_weights[ch(j)] ELSE 1
            /\ vc.A[n + 1][n + 1] = 0
            /\ Len(vc.S) = n + 1
            /\ \A i \in 1 .. n :
                  vc.S[i] = 0 - vc.sigma_o[ch(i)]
                      - Sum([j \in 1 .. n |-> vc.C[ch(i)][ch(j)] * w_last(j)])
                      - Sum([t \in 1 .. m |->
                                vc.C[ch(i)][vc.EltTip[t]] * vc.wTip[t]])
            /\ vc.S[n + 1] * vc.ElemArea =
                  (Sum(vc.Q) * vc.dt)
                      - ((tipChange + Sum(vc.lkOff)) * vc.ElemArea)

\* a system of the symmetric variant assembled for two Channel cells
C10_SymmetricAssembled ==
    /\ vc.pc = "assembled"
    /\ vc.variant = "symmetric"
    /\ Len(vc.EltChannel) = 2
    /\ Len(vc.A) = 3

\* every Channel row of the solved system states Ccc w + Cct wTip = p
ElasticCompatibility ==
    LET n == Len(vc.EltChannel)
    IN  \A i \in 1 .. n :
            Sum([j \in 1 .. n |->
                    vc.C[vc.EltChannel[i]][vc.EltChannel[j]] * vc.sol[j]])
              + Sum([t \in 1 .. Len(vc.EltTip) |->
                        vc.C[vc.EltChannel[i]][vc.EltTip[t]] * vc.wTip[t]])
              = vc.sol[n + 1]

FullyUpdated ==
    /\ Fr_kplus1.sgndDist = sgndDist_k
    /\ Fr_kplus1.time = Fr_entry.time + timeStep
    /\ Fr_kplus1.closed = data.closed
    /\ Fr_kplus1.EltTip = lists_k.EltTip
    /\ Fr_kplus1.EltChannel = lists_k.EltChannel
    /\ Fr_kplus1.injectedVol = Fr_entry.injectedVol + Qin * timeStep

\* C12: a call that returns an accepted step returns status 14 if the solve
\* reported full closure and status 1 if it did not, in both cases with the
\* fully updated snapshot.
C12_Status14IffFullyClosed ==
    AcceptedStep =>
        /\ exitstatus = 14 <=> data.fullyClosed
        /\ exitstatus = 1 <=> ~data.fullyClosed
        /\ returned = "Fr_kplus1"
        /\ FullyUpdated

\* a step returned with status 14 after a pass of the toughness loop
C12_FullyClosedReturned ==
    /\ pc = "return"
    /\ exitstatus = 14
    /\ passes >= 1
    /\ data.fullyClosed

\* the call has returned after maxProjItrs passes of the toughness loop, none
\* of which left the loop
LoopExhausted == pc = "return" /\ sim_properties.maxProjItrs = {itr}

CellsOneInside(nxx, nyy) ==
    {e \in 0 .. nxx * nyy - 1 :
        LET i == e % nxx
            j == e \div nxx
        IN  /\ i \in 1 .. nxx - 2
            /\ j \in 1 .. nyy - 2
            /\ (i \in {1, nxx - 2} \/ j \in {1, nyy - 2})}

\* no element of a list is listed twice
ListedOnce(s) == Len(s) = Cardinality(SeqToSet(s))

\* mesh.Frontlist is the closed ring one cell inside the boundary
FrontlistIsRing ==
    /\ SeqToSet(Frontlist) = CellsOneInside(nx, ny)
    /\ ListedOnce(Frontlist)

\* the front is reconstructed and a new tip cell lies in mesh.Frontlist
TouchesEdgeOfGrid == geometry # None /\ SeqToSet(Frontlist) \cap EltsTipNew # {}

\* C14 as stated: mesh.Frontlist is the ring one cell inside the boundary, no
\* step is accepted with a new tip cell in it, and every call that ends with a
\* new tip cell in it returns status 12.
C14_EdgeOfGridReturns12 ==
    /\ FrontlistIsRing
    /\ AcceptedStep => ~TouchesEdgeOfGrid
    /\ (pc \in {"return", "SystemExit"} /\ TouchesEdgeOfGrid)
          => pc = "return" /\ exitstatus = 12

\* C14: mesh.Frontlist is the ring one cell inside the boundary and no step is
\* accepted with a new tip cell in it: a call whose new tip cells reach it
\* goes no further than the checks on the front and returns status 12, unless
\* the reconstruction was invalid (status 3) or the continuous front
\* reconstruction flagged the front first (status 7).
C14_NoStepAcceptedAtEdgeOfGrid ==
    /\ FrontlistIsRing
    /\ AcceptedStep => ~TouchesEdgeOfGrid
    /\ TouchesEdgeOfGrid =>
          /\ pc \in {"reconstruct", "checks", "return"}
          /\ pc = "return" =>
                /\ exitstatus \in {3, 7, 12}
                /\ exitstatus = 3 => geometry # "ok"
                /\ exitstatus = 7 =>
                      sim_properties.projMethod = "LS_continousfront"

\* the check of line 213 has ended a call whose front had traversed the tip
\* cells of the last step into mesh.Frontlist
C14_ReachedEndOfGrid ==
    /\ pc = "return"
    /\ exitstatus = 12
    /\ returned = "Fr_lstTmStp"
    /\ TouchesEdgeOfGrid
    /\ geometry = "ok"
    /\ EltsTipNew # Fr_entry.EltTip

\* C15: in an accepted step the new snapshot has the time of the last step
\* plus timeStep, its injected volume plus sum(Qin) * timeStep and its total
\* leak-off plus the sum of the leak-off of the step, and for a positive time
\* step its time is after the time of the last step.
C15_BookkeepingAdvancesOneStep ==
    AcceptedStep =>
        /\ Fr_kplus1.time = Fr_entry.time + timeStep
        /\ Fr_kplus1.injectedVol = Fr_entry.injectedVol + Qin * timeStep
        /\ Fr_kplus1.LkOffTotal = Fr_entry.LkOffTotal + SumOver(LkOff, Cells)
        /\ \A e \in Cells : ~IsNaN(LkOff[e])
        /\ timeStep > 0 => Fr_kplus1.time > Fr_entry.time

\* an accepted step with fluid injected and fluid leaked off
C15_StepWithLeakOff ==
    /\ AcceptedStep
    /\ timeStep > 0
    /\ Qin > 0
    /\ SumOver(LkOff, Cells) > 0
    /\ Fr_kplus1.LkOffTotal > Fr_entry.LkOffTotal

\* a mesh has been constructed
MeshBuilt == vc.pc \in {"mesh", "neighbors"}

\* the neighbours of cell e on a regular grid of nxx by nyy cells, a cell of
\* the boundary its own neighbour on the sides where it lies on the boundary
GridNeighbours(e, nxx, nyy) ==
    <<IF e % nxx = 0 THEN e ELSE e - 1,
      IF e % nxx = nxx - 1 THEN e ELSE e + 1,
      IF e < nxx THEN e ELSE e - nxx,
      IF e >= nxx * (nyy - 1) THEN e ELSE e + nxx>>

\* C16: for every cell e of a constructed mesh the neighbours are (e - 1,
\* e + 1, e - nx, e + nx), with e itself on the sides where e is on the
\* boundary; every neighbour is a cell of the mesh; and for different cells
\* e and f, f is to the right of e iff e is to the left of f, and f is on top of
\* e iff e is at the bottom of f.
C16_NeighboursOfRegularGrid ==
    MeshBuilt =>
        LET N == vc.NeiElements
            cells == 0 .. vc.NumberOfElts - 1
        IN  /\ DOMAIN N = cells
            /\ \A e \in cells :
                  /\ N[e] = GridNeighbours(e, vc.nx, vc.ny)
                  /\ \A k \in 1 .. 4 : N[e][k] \in cells
                  /\ \A f \in cells \ {e} :
                        /\ N[e][2] = f <=> N[f][1] = e
                        /\ N[e][4] = f <=> N[f][3] = e
            /\ vc.pc = "neighbors" => vc.neighbors = N[vc.elem]

\* the neighbours of the cell in the bottom left corner of a mesh that is
\* wider than it is high have been read
C16_CornerCellRead ==
    /\ vc.pc = "neighbors"
    /\ vc.nx > vc.ny /\ vc.ny >= 3
    /\ vc.elem = 0
    /\ vc.neighbors = <<0, 1, 0, vc.nx>>

\* C17: a constructed mesh has odd nx and ny, an even requested number
\* increased by one and an odd one kept, and NumberOfElts = nx * ny.
C17_OddNumberOfCells ==
    MeshBuilt =>
        /\ vc.nx % 2 = 1 /\ vc.ny % 2 = 1
        /\ vc.nx = (IF vc.nxRequested % 2 = 0 THEN vc.nxRequested + 1
                    ELSE vc.nxRequested)
        /\ vc.ny = (IF vc.nyRequested % 2 = 0 THEN vc.nyRequested + 1
                    ELSE vc.nyRequested)
        /\ vc.NumberOfElts = vc.nx * vc.ny

\* a mesh constructed for an even number of cells in x and an odd one in y
C17_EvenAndOddRequest ==
    /\ vc.pc = "mesh"
    /\ vc.nxRequested = 4 /\ vc.nx = 5
    /\ vc.nyRequested = 3 /\ vc.ny = 3
    /\ vc.NumberOfElts = 15

\* the object is inactive with both time bounds None
Idle(self) ==
    /\ ~self.active_adaptive_time_ref
    /\ self.lower_time_bound = NoTimeBound
    /\ self.upper_time_bound = NoTimeBound

\* the object is active with both time bounds set
Bridging(self) ==
    /\ self.active_adaptive_time_ref
    /\ self.lower_time_bound # NoTimeBound
    /\ self.upper_time_bound # NoTimeBound

\* a call that takes the object from Idle to Bridging or back has the aspect
\* ratios, sets the bounds and returns what the two transitions say
IdleBridgingIdle ==
    /\ (Idle(vc.self) /\ ~Idle(vc'.self)) =>
          /\ Lt(vc'.aspect_ratio_c, vc.self.aspect_ratio_max)
          /\ Ge(vc'.aspect_ratio_n,
                vc.self.aspect_ratio_max + vc.self.aspect_ratio_toll)
          /\ vc'.self.lower_time_bound = vc'.time_c
          /\ vc'.self.upper_time_bound = vc'.time_n
          /\ vc'.ret =
                <<RefinedTimeStep(vc'.time_n, vc'.time_c, vc'.time_c), TRUE>>
    /\ (Bridging(vc.self) /\ ~Bridging(vc'.self)) =>
          /\ Ge(vc'.aspect_ratio_n, vc.self.aspect_ratio_max)
          /\ Lt(vc'.aspect_ratio_n,
                vc.self.aspect_ratio_max + vc.self.aspect_ratio_toll)
          /\ Idle(vc'.self)
          /\ vc'.ret = <<vc'.timestep, FALSE>>

\* C18: the object is always Idle (inactive, both bounds None) or Bridging
\* (active, both bounds set); it leaves Idle only in a call whose current
\* aspect ratio is below aspect_ratio_max and whose new one is at least
\* aspect_ratio_max + tolerance, which sets lower = Fr_current.time and
\* upper = Fr_new.time and returns a refined step with True; it leaves Bridging
\* only in a call whose new aspect ratio is in [aspect_ratio_max,
\* aspect_ratio_max + tolerance), which clears both bounds and returns
\* (timestep, False).
C18_IdleBridgingIdle ==
    /\ [](Idle(vc.self) \/ Bridging(vc.self))
    /\ [][IdleBridgingIdle]_vars

\* the object is back in Idle after a bridging whose lower bound had been
\* moved: the last call found the new aspect ratio in the band
C18_BackToIdle ==
    /\ vc.pc = "called"
    /\ Bridging(vc.before)
    /\ vc.before.lower_time_bound > 0
    /\ Idle(vc.self)
    /\ vc.ret = <<vc.timestep, FALSE>>

\* the cells whose fluid pressure is below the pore pressure
BelowPorePressure(pFluid, porePressure) ==
    {e \in Cells : pFluid[e] < porePressure}

\* the leak-off as lines 389-426 compute it, before line 428
ComputedLeakOff ==
    LeakOffOf(Fr_lstTmStp, EltsTipNew,
              StagnantCells(EltsTipNew, sgndDist_k, Fr_lstTmStp.sgndDist),
              mat_properties.Cprime, TipLeakOffIntegral(EltsTipNew, FALSE), 1,
              {}, timeStep).LkOff

\* C19: the leak-off handed to the solver is zero in the cells whose fluid
\* pressure of the last step is below the pore pressure, and the computed
\* value in every other cell, the cells whose fluid pressure equals the pore
\* pressure included.
C19_LeakOffZeroOnlyBelowPorePressure ==
    pc = "solve" =>
        \A e \in Cells :
            LkOff[e] =
                IF e \in BelowPorePressure(Fr_lstTmStp.pFluid,
                                           mat_properties.porePressure)
                THEN 0 ELSE ComputedLeakOff[e]

\* the length of a time unit of the model in seconds, half a cell being one
\* metre long
SecondsPerTimeUnit == 2000000

\* -(sgndDist_k - sgndDist_last) / timeStep < toleranceVStagnant, for a level
\* set in half cells and a time step in time units
VelocityBelowTolerance(sdk, sd, dt) ==
    /\ ~IsNaN(sdk)
    /\ ~IsNaN(sd)
    /\ sd - sdk <= (dt * SecondsPerTimeUnit - 1) \div toleranceVStagnantInv

\* C20: when the tip widths are computed, the stagnant cells of the new tip
\* are the cells whose front velocity over the step is below
\* toleranceVStagnant.
C20_StagnantIffVelocityBelowTolerance ==
    pc = "leak off" =>
        \A e \in EltsTipNew :
            e \in StagnantCells(EltsTipNew, sgndDist_k, Fr_lstTmStp.sgndDist)
                <=> VelocityBelowTolerance(sgndDist_k[e],
                                           Fr_lstTmStp.sgndDist[e], timeStep)

\* the number of the four neighbours of a cell that are cells of a region
NeighboursIn(e, region) ==
    Cardinality({k \in 1 .. 4 : NeiElements[e][k] \in region})

\* C21 as stated: every cell outside the band with three or more of its four
\* neighbours in the band is in the front region returned.
C21_ThreeOrMoreNeighboursPlugged ==
    vc.pc = "returned" =>
        \A e \in Cells \ vc.band :
            NeighboursIn(e, vc.band) >= 3 => e \in SeqToSet(vc.front_region)

\* C21: the front region returned is the band and the cells outside the band
\* that have all four of their neighbours in the band; a cell outside the band
\* with three neighbours in the band is not added.
C21_FourNeighboursPlugged ==
    vc.pc = "returned" =>
        /\ vc.band \subseteq SeqToSet(vc.front_region)
        /\ \A e \in Cells \ vc.band :
              e \in SeqToSet(vc.front_region) <=> NeighboursIn(e, vc.band) = 4

\* a call that plugged a hole of the band and left out a cell with three of
\* its neighbours in the band
C21_HolePlugged ==
    /\ vc.pc = "returned"
    /\ vc.out_to_add # << >>
    /\ \E e \in Cells \ vc.band : NeighboursIn(e, vc.band) = 3

\* C29: the front region returned has every Ribbon cell given, no cell
\* outside it has all four of its neighbours in it, and no cell is listed
\* twice.
C29_ClosedAfterOnePass ==
    vc.pc = "returned" =>
        LET region == SeqToSet(vc.front_region)
        IN  /\ vc.EltRibbon \subseteq region
            /\ \A e \in Cells \ region : NeighboursIn(e, region) < 4
            /\ ListedOnce(vc.front_region)

\* a call for four Ribbon cells or more that appended a plugged cell to the
\* array of the band and left some cell of the mesh out
C29_PluggedCellAppended ==
    /\ vc.pc = "returned"
    /\ Cardinality(vc.EltRibbon) >= 4
    /\ Len(vc.out_to_add) >= 1
    /\ Len(vc.front_region) = Cardinality(vc.band) + Len(vc.out_to_add)
    /\ Len(vc.front_region) < NumberOfElts

\* the toughness is isotropic, paramFromTip is off and the elasticity is not
\* transversely isotropic, or explicitProjection is set
OnePassSetting ==
    \/ /\ sim_properties.paramFromTip = {FALSE}
       /\ mat_properties.anisotropic_K1c = {FALSE}
       /\ mat_properties.TI_elasticity = {FALSE}
    \/ sim_properties.explicitProjection = {TRUE}

\* C22: the toughness loop makes at most maxProjItrs passes; once it has ended
\* with maxProjItrs >= 1 it has made a pass, and it has made exactly one if the
\* toughness is isotropic, paramFromTip is off and the elasticity is not
\* transversely isotropic, or if explicitProjection is set.
C22_AtMostMaxProjItrsPasses ==
    pc \in {"loop", "finish", "return", "SystemExit"} =>
        /\ \A maxProjItrs \in sim_properties.maxProjItrs :
              passes <= maxProjItrs
        /\ (pc = "finish" /\ 0 \notin sim_properties.maxProjItrs)
              => passes >= 1
        /\ (passes >= 1 /\ OnePassSetting) => passes = 1

\* the loop has ended after its only pass with maxProjItrs = 2, the toughness
\* isotropic and explicitProjection off
C22_OnePassOfTwo ==
    /\ pc = "finish"
    /\ sim_properties.maxProjItrs = {2}
    /\ sim_properties.explicitProjection = {FALSE}
    /\ OnePassSetting
    /\ passes = 1


\* the step left the loop around reconstruct_front_continuous by one of its
\* two flags
LeftFrontLoop ==
    /\ sim_properties.projMethod = "LS_continousfront"
    /\ (correct_size_of_pstv_region[1] \/ correct_size_of_pstv_region[2])

\* the checks up to the one of the filling fractions found nothing
FrontAndFillingPassed ==
    /\ geometry = "ok"
    /\ ~TouchesEdgeOfGrid
    /\ DOMAIN FillFrac_k = EltsTipNew
    /\ \A e \in EltsTipNew :
          FillFrac_k[e] <= FF_ONE /\ FillFrac_k[e] >= FF_NEG_EPS

\* the checks up to the one of the tip volume found nothing
TipVolumePassed ==
    /\ FrontAndFillingPassed
    /\ DOMAIN wTip = EltsTipNew
    /\ \A e \in EltsTipNew : ~Lt(wTip[e], 0)
    /\ ~FEq(SumOver(wTip, EltsTipNew), 0)

\* C23: the status a call returns is the one of the earliest failure check
\* that fires.  In the loop around reconstruct_front_continuous the third flag
\* (status 7) wins over the second (status 12).  After the loop an invalid
\* geometry gives 3 whatever else holds, a tip cell in the Frontlist gives 12
\* when the geometry is valid, 16 is returned before any filling fraction is
\* computed, 9 with a filling fraction out of range, 8 before any tip width
\* is computed, 4 with an invalid tip volume, 13 before the leak-off is
\* stored, 5, 11, the 7 of the toughness loop and 10 only after all of these
\* checks found nothing, and so are 14 and 1.
C23_EarliestFailureDetermines ==
    pc = "return" =>
       IF LeftFrontLoop
       THEN IF correct_size_of_pstv_region[2]
            THEN exitstatus = 7 /\ returned = None
            ELSE exitstatus = 12 /\ returned = "Fr_kplus1"
       ELSE /\ geometry # "ok" => exitstatus = 3
            /\ (geometry = "ok" /\ TouchesEdgeOfGrid)
                  => exitstatus = 12 /\ returned = "Fr_lstTmStp"
            /\ exitstatus = 16
                  => geometry = "ok" /\ ~TouchesEdgeOfGrid /\ FillFrac_k = Unbound
            /\ exitstatus = 9
                  => /\ geometry = "ok" /\ ~TouchesEdgeOfGrid
                     /\ \E e \in DOMAIN FillFrac_k :
                           FillFrac_k[e] > FF_ONE \/ FillFrac_k[e] < FF_NEG_EPS
            /\ (exitstatus = 3 /\ geometry = "ok")
                  => FrontAndFillingPassed /\ wTip = Unbound
            /\ exitstatus = 8 => FrontAndFillingPassed /\ wTip = Unbound
            /\ exitstatus = 4
                  => /\ FrontAndFillingPassed
                     /\ ~TipVolumePassed
                     /\ LkOff = Unbound
            /\ exitstatus = 13 => TipVolumePassed /\ LkOff = Unbound
            /\ exitstatus \in {5, 11, 7, 10, 14, 1}
                  => TipVolumePassed /\ DOMAIN LkOff # {}
            /\ exitstatus \in {14, 1} => returned = "Fr_kplus1"

\* a call that ends in the loop with the second and the third flag set
C23_BothFlagsSet ==
    /\ pc = "return"
    /\ LeftFrontLoop
    /\ correct_size_of_pstv_region[1]
    /\ correct_size_of_pstv_region[2]
    /\ exitstatus = 7

\* the cells that join the Channel in the step
NewChannelCells == Fr_kplus1.EltChannel \ Fr_entry.EltChannel

C24_ArrivalCorrected ==
    /\ AcceptedStep
    /\ \E e \in NewChannelCells :
          \E c \in Fr_entry.EltChannel :
             Fr_kplus1.Tarrival[e] = Fr_entry.Tarrival[c]

\* get_extensionsal_domain_limits has returned
LimitsReturned == vc.pc \in {"limits", "mapped", "UnboundLocalError"}

\* the sides 0 and 1 of the y axis (entry 1 of the lists), 2 and 3 of the x
\* axis (entry 0)
LowerSide(axis) == IF axis = 1 THEN 0 ELSE 2
UpperSide(axis) == IF axis = 1 THEN 1 ELSE 3
\* the limits of the old mesh along an axis
OldLimits(axis) ==
    IF axis = 1
    THEN Pair(vc.old_mesh.domainLimits[0], vc.old_mesh.domainLimits[1])
    ELSE Pair(vc.old_mesh.domainLimits[2], vc.old_mesh.domainLimits[3])
OldElems(axis) == IF axis = 1 THEN vc.old_mesh.ny ELSE vc.old_mesh.nx

C26_EvenNumberAdded ==
    /\ vc.old_mesh.nx % 2 = 1 /\ vc.old_mesh.ny % 2 = 1
    /\ \A s \in Sides : vc.added[s] % 2 = 0
    /\ vc.old_elems[0] % 2 = 1 /\ vc.old_elems[1] % 2 = 1

\* the negative y side of three rows extended by the factor 1.5: int(1.5) = 1
\* element, made 2
C26_OddNumberMadeEven ==
    /\ vc.pc = "limits"
    /\ ~vc.symmetric
    /\ vc.extension_bools[0] /\ ~vc.extension_bools[1]
    /\ vc.old_mesh.ny = 3
    /\ vc.extension_factor[0] = 3
    /\ vc.added[0] = 2
    /\ vc.old_elems[1] = 5

\* C27: mapping_old_indexes sends the old cell of column i and row j to the
\* index (j + rows added below) * new nx + (i + columns added on the left) of
\* the new mesh; the map is injective, stays within the new mesh, and old
\* cells next to each other in a row or in a column are mapped to cells next
\* to each other in the same way.
C27_OldCellsKeepTheirPlace ==
    vc.pc = "mapped" =>
       LET nx_old == vc.old_mesh.nx
           nx_new == vc.new_mesh.nx
           old == 0 .. vc.old_mesh.NumberOfElts - 1
           m == vc.new_indexes
       IN /\ \A k \in old :
                /\ m[k] = ((k \div nx_old) + vc.added[0]) * nx_new
                             + (k % nx_old) + vc.added[2]
                /\ m[k] >= 0
                /\ m[k] < vc.new_mesh.NumberOfElts
          /\ \A k \in old, c \in old : k # c => m[k] # m[c]
          /\ \A k \in old :
                /\ (k % nx_old # nx_old - 1)
                      => m[k + 1] = m[k] + 1 /\ m[k] % nx_new # nx_new - 1
                /\ (k + nx_old \in old) => m[k + nx_old] = m[k] + nx_new

\* the old indexes mapped after an extension of three sides, the negative y
\* side among them
C27_ThreeSidesMapped ==
    /\ vc.pc = "mapped"
    /\ Cardinality({s \in Sides : vc.new_dirs[s]}) = 3
    /\ vc.new_dirs[0]
    /\ vc.new_indexes[0] > 0

\* C28: when get_extensionsal_domain_limits has returned, along each axis the
\* span of the limits is the old cell size of that axis times the number of
\* elements less one: the cell size is kept.
C28_CellSizeKept ==
    LimitsReturned =>
       /\ vc.old_limits[0][1] - vc.old_limits[0][0]
             = vc.old_mesh.hx * (vc.old_elems[0] - 1)
       /\ vc.old_limits[1][1] - vc.old_limits[1][0]
             = vc.old_mesh.hy * (vc.old_elems[1] - 1)

\* the step is to be taken again
ToRetry == vc.pc = "retry"

\* C30: while the step is taken again from the same current fracture with the
\* time step returned, the object is Bridging, its lower time bound is at most
\* its upper one, the time of the next trial, Fr_current.time plus the time
\* step returned, lies between the two, and a trial that was rejected during
\* the refinement has replaced exactly one of the bounds by its time and made
\* the interval shorter.
C30_TrialTimeBetweenBounds ==
    ToRetry =>
       /\ Bridging(vc.self)
       /\ vc.self.lower_time_bound <= vc.self.upper_time_bound
       /\ vc.self.lower_time_bound <= vc.time_c + vc.timestep
       /\ vc.time_c + vc.timestep <= vc.self.upper_time_bound
       /\ vc.retries >= 1 =>
             /\ \/ /\ vc.self.lower_time_bound = vc.time_n
                   /\ vc.self.upper_time_bound = vc.before.upper_time_bound
                \/ /\ vc.self.upper_time_bound = vc.time_n
                   /\ vc.self.lower_time_bound = vc.before.lower_time_bound
             /\ vc.self.upper_time_bound - vc.self.lower_time_bound
                   < vc.before.upper_time_bound - vc.before.lower_time_bound

\* the same for the object of analyse_bt_fixed_ar_Kiter.py alone
TrialTimeBetweenBoundsWithHalf ==
    vc.script = "analyse_bt_fixed_ar_Kiter.py" => C30_TrialTimeBetweenBounds

\* the third trial of a refinement with the factor 0.5
ThirdTrialWithHalf ==
    /\ ToRetry
    /\ vc.script = "analyse_bt_fixed_ar_Kiter.py"
    /\ vc.retries = 2
    /\ vc.time_c > 0
=============================================================================
